---------------------------- MODULE Spec2Model ----------------------------
(***************************************************************************)
(* Verification model of the uart-to-gamepad protocol layer:               *)
(*   - GamepadBridge (gamepad-core/src/bridge.rs)                          *)
(*   - MavlinkParser and its CRC (mavlink-proto/src/parser.rs)             *)
(*   - the ASCII codec: parser (gamepad-core/src/parser.rs) and            *)
(*     serializer (gamepad-proto/src/serialize.rs, format.rs)              *)
(*   - GamepadState::apply_update (gamepad-core/src/types.rs)              *)
(*   - the mappers (mavlink-proto/src/mapping.rs,                          *)
(*     crsf-proto/src/mapping.rs) and encode_telemetry                     *)
(*     (crsf-proto/src/telemetry.rs)                                       *)
(*   - the input sources (firmware-rp2040/src/input/gamepad.rs,            *)
(*     mavlink.rs, crsf.rs)                                                *)
(*   - input_task and output_task (firmware/src/bin/main.rs)               *)
(* Each component has its own specification (SpecBridge, SpecParser,       *)
(* SpecCrc, SpecAscii, SpecUpdate, SpecMap, SpecUart, SpecMavIn,           *)
(* SpecCrsfProto, SpecCrsfIn, SpecSignal) over its own group of variables. *)
(***************************************************************************)
EXTENDS Integers, Sequences, FiniteSets, TLC

VARIABLES
    \* ---- GamepadBridge ----
    bpc,        \* position of run()/process_one(): "idle", "receiving", "sending", "returned"
    rx,         \* what input.receive() returned in this cycle
    sent,       \* the states passed to output.send() in this cycle, in order
    sendRes,    \* what output.send() returned in this cycle
    held,       \* the state most recently accepted by the output sink
    heldAtStart,\* held when the current cycle started
    ret,        \* what process_one() returned
    lastRet,    \* what the process_one() of the cycle before returned
    recvOut,    \* input.receive() calls issued and not completed
    sendOut,    \* output.send() calls issued and not completed
    \* ---- MavlinkParser and the byte stream feeding it ----
    parser,     \* the MavlinkParser under test: buffer, pos, state
    shadow,     \* a parser constructed with new() at an earlier terminal result
    lastRes,    \* what the last push_byte on parser returned
    shadowRes,  \* what the last push_byte on shadow returned
    access,     \* buffer indices touched by the last push_byte
    panicked,   \* an index was out of bounds: the call panicked
    stream,     \* bytes of the current frame not yet pushed
    cur,        \* the frame being fed
    prev,       \* the frame fed before it
    startRes,   \* lastRes at the moment cur started
    sync,       \* parser was in WaitingForStart at the moment cur started
    nFrames,    \* frames fed so far
    \* ---- crc_accumulate / crc16_mcrf4xx as pure functions ----
    crcIn,      \* the inputs: which function, byte, crc, data, crc_extra
    crcOut,     \* the value returned, -1 before the call
    \* ---- ASCII codec: parse, parse_message and the two serialize ----
    aOp,        \* the last call: "-", "parse", "altered", "state", "update"
    aMsg,       \* the sender's description of the line handed to the parser
    aLine,      \* the bytes handed to parse and parse_message
    aRes,       \* what parse(aLine) returned
    aMsgRes,    \* what parse_message(aLine) returned
    aOrig,      \* the accepted line that aLine was altered from
    aAlt,       \* which part of aOrig was altered: "-", "payload", "checksum"
    aVal,       \* the GamepadState or GamepadFieldUpdate passed to serialize
    aBuf,       \* the caller's buffer before serialize
    aSer,       \* what serialize returned, and the buffer after it
    \* ---- GamepadState::apply_update ----
    uStep,      \* how many times the update has been applied: 0, 1, 2
    uState,     \* the state before the update
    uUpdate,    \* the GamepadFieldUpdate applied
    uOnce,      \* the state after applying it once
    uTwice,     \* the state after applying it twice
    \* ---- the mappers as pure functions ----
    mIn,        \* the function called and its arguments
    mDone,      \* the call has been made
    mChecks,    \* the build of the call has overflow checks
    mOut,       \* what the call returned
    \* ---- UartInputSource ----
    usState,    \* self.state
    usBuffer,   \* self.buffer after the last read_line
    usLine,     \* what the UART delivered during the last receive()
    usRet,      \* what the last receive() returned
    usPrev,     \* self.state before the last receive()
    usPrevRet,  \* what the receive() before the last returned
    usN,        \* receive() calls so far
    usWire,     \* the bytes and errors the UART delivers, as last chosen
    usStream,   \* the part of usWire no receive() has read yet
    usMsgs,     \* the messages of the lines parsed successfully, in order
    \* ---- MavlinkInputSource ----
    miParser,   \* self.parser
    miState,    \* self.state
    miTarget,   \* self.target_system
    miLast,     \* self.last_message in seconds, -1 for None
    miNow,      \* Instant::now() in seconds
    miStream,   \* bytes of the current frame the UART has not delivered yet
    miFrame,    \* the frame being delivered
    miRes,      \* what the last push_byte returned
    miSetBy,    \* the push_byte result at which last_message was last set
    miRet,      \* what receive() returned, if it has
    miN,        \* frames delivered so far
    \* ---- encode_telemetry and channels_to_gamepad as pure functions ----
    cpIn,       \* the call: the function and its arguments
    cpDone,     \* the call has been made
    cpChecks,   \* the build has overflow checks
    cpOut,      \* what the call produced
    \* ---- CrsfInputSource ----
    ciConnected,\* self.connected
    ciState,    \* self.state
    ciRet,      \* what receive() returned, if it has
    ciEver,     \* an RC-channels packet has been decoded
    ciQuiet,    \* seconds since the last byte arrived
    ciN,        \* reads so far
    \* ---- STATE_SIGNAL between input_task and output_task ----
    sgSlot,     \* the value the signal holds, if any
    sgSignalled,\* the states input_task signalled, in order
    sgLost,     \* signals overwritten before output_task took them
    sgSent,     \* the states output_task passed to send, in order
    sgResults,  \* what the completed sends returned, in order
    sgPc        \* position of output_task

bridgeVars == <<bpc, rx, sent, sendRes, held, heldAtStart, ret, lastRet,
                recvOut, sendOut>>
parserVars == <<parser, shadow, lastRes, shadowRes, access, panicked,
                stream, cur, prev, startRes, sync, nFrames>>
crcVars == <<crcIn, crcOut>>
asciiVars == <<aOp, aMsg, aLine, aRes, aMsgRes, aOrig, aAlt, aVal, aBuf, aSer>>
updVars == <<uStep, uState, uUpdate, uOnce, uTwice>>
mapVars == <<mIn, mDone, mChecks, mOut>>
uartVars == <<usState, usBuffer, usLine, usRet, usPrev, usPrevRet, usN,
              usWire, usStream, usMsgs>>
mavVars == <<miParser, miState, miTarget, miLast, miNow, miStream, miFrame, miRes,
             miSetBy, miRet, miN>>
cpVars == <<cpIn, cpDone, cpChecks, cpOut>>
ciVars == <<ciConnected, ciState, ciRet, ciEver, ciQuiet, ciN>>
sgVars == <<sgSlot, sgSignalled, sgLost, sgSent, sgResults, sgPc>>
vars == <<bridgeVars, parserVars, crcVars, asciiVars, updVars, mapVars,
          uartVars, mavVars, cpVars, ciVars, sgVars>>

-----------------------------------------------------------------------------
(* Fixed-width integer helpers                                             *)

Pow2(n) == 2 ^ n

RECURSIVE BitXor(_, _)
BitXor(a, b) ==
    IF a = 0 THEN b
    ELSE IF b = 0 THEN a
    ELSE (((a % 2) + (b % 2)) % 2) + 2 * BitXor(a \div 2, b \div 2)

\* x << n on a u16: bits shifted past the width are lost
Shl16(x, n) == (x * Pow2(n)) % 65536
Shr(x, n) == x \div Pow2(n)

\* i16::from_le_bytes / u16::from_le_bytes
u16_from_le_bytes(lo, hi) == lo + 256 * hi
i16_from_le_bytes(lo, hi) ==
    LET u == lo + 256 * hi IN IF u >= 32768 THEN u - 65536 ELSE u

-----------------------------------------------------------------------------
(* State model: gamepad-core/src/types.rs                                  *)

AnalogStick(x, y) == [x |-> x, y |-> y]

GamepadState(b, ls, rs, lt, rt) ==
    [buttons |-> b, left_stick |-> ls, right_stick |-> rs,
     left_trigger |-> lt, right_trigger |-> rt]

neutral == GamepadState(0, AnalogStick(0, 0), AnalogStick(0, 0), 0, 0)

\* The states an input source delivers: neutral, the state of
\* test_bridge_forwards_state (A|B, left_stick.x = 1000), and the extremes.
SampleStates ==
    { neutral,
      GamepadState(3, AnalogStick(1000, 0), AnalogStick(0, 0), 0, 0),
      GamepadState(65535, AnalogStick(-32768, 32767), AnalogStick(32767, -32768), 255, 255) }

\* enum GamepadFieldUpdate: the variant and the value it carries
GamepadFieldUpdate(field, value) == [field |-> field, value |-> value]

\* Mutant: LeftStickY writes the x axis of the left stick.
apply_update_y_writes_x(self, update) ==
    CASE update.field = "Buttons" -> [self EXCEPT !.buttons = update.value]
      [] update.field = "LeftStickX" -> [self EXCEPT !.left_stick.x = update.value]
      [] update.field = "LeftStickY" -> [self EXCEPT !.left_stick.x = update.value]
      [] update.field = "RightStickX" -> [self EXCEPT !.right_stick.x = update.value]
      [] update.field = "RightStickY" -> [self EXCEPT !.right_stick.y = update.value]
      [] update.field = "LeftTrigger" -> [self EXCEPT !.left_trigger = update.value]
      [] update.field = "RightTrigger" -> [self EXCEPT !.right_trigger = update.value]

\* GamepadState::apply_update: the state after the call
apply_update(self, update) ==
    CASE update.field = "Buttons" -> [self EXCEPT !.buttons = update.value]
      [] update.field = "LeftStickX" -> [self EXCEPT !.left_stick.x = update.value]
      [] update.field = "LeftStickY" -> [self EXCEPT !.left_stick.y = update.value]
      [] update.field = "RightStickX" -> [self EXCEPT !.right_stick.x = update.value]
      [] update.field = "RightStickY" -> [self EXCEPT !.right_stick.y = update.value]
      [] update.field = "LeftTrigger" -> [self EXCEPT !.left_trigger = update.value]
      [] update.field = "RightTrigger" -> [self EXCEPT !.right_trigger = update.value]

InputError == {"Io", "Parse", "Checksum", "Disconnected", "BufferOverflow", "Framing"}
OutputError == {"Io", "NotReady", "Dropped", "Busy"}

\* "No state accepted yet": what the sink holds before its first successful send.
NoState == GamepadState(-1, AnalogStick(0, 0), AnalogStick(0, 0), 0, 0)

-----------------------------------------------------------------------------
(* GamepadBridge: gamepad-core/src/bridge.rs                               *)

\* Result<GamepadState, InputError>
RecvOk(s) == [ok |-> TRUE, state |-> s, err |-> "-"]
RecvErr(e) == [ok |-> FALSE, state |-> neutral, err |-> e]
RecvResults == {RecvOk(s) : s \in SampleStates} \cup {RecvErr(e) : e \in InputError}

\* Result<(), OutputError>
SendOk == [ok |-> TRUE, err |-> "-"]
SendErr(o) == [ok |-> FALSE, err |-> o]
SendResults == {SendOk} \cup {SendErr(o) : o \in OutputError}

\* Result<(), BridgeError>
BridgeOk == [tag |-> "Ok", err |-> "-"]
BridgeInput(e) == [tag |-> "Input", err |-> e]
BridgeOutput(o) == [tag |-> "Output", err |-> o]
NoResult == [tag |-> "-", err |-> "-"]

\* Mutant: the error arm only reports the error and sends nothing.
SendsOf_no_failsafe(r) == IF r.ok THEN <<r.state>> ELSE <<>>

\* The output.send() calls of one cycle, in order: the Ok arm (41-47) sends the
\* received state, the Err arm (48-52) sends GamepadState::neutral().
SendsOf(r) == IF r.ok THEN <<r.state>> ELSE <<neutral>>

\* Mutant: the error arm propagates the sink's error with `?`.
process_one_result_propagate(r, o) ==
    IF ~o.ok THEN BridgeOutput(o.err)
    ELSE IF r.ok THEN BridgeOk ELSE BridgeInput(r.err)

\* Mutant: the Ok arm discards the sink's error as the Err arm does.
process_one_result_discard(r, o) ==
    IF r.ok THEN BridgeOk ELSE BridgeInput(r.err)

\* The value process_one returns, from receive's result r and send's result o.
process_one_result(r, o) ==
    IF r.ok
    THEN (IF o.ok THEN BridgeOk ELSE BridgeOutput(o.err))
    ELSE BridgeInput(r.err)

\* The sink keeps a state only when its send succeeds.
SinkAccept(h, s, o) == IF o.ok THEN s ELSE h

\* Mutant: run leaves its loop when process_one returns an error.
run_loops_while_ok(result) == result.tag \in {"-", "Ok"}

\* run: `loop` has no exit, whatever process_one returned
run_loops(result) == TRUE

\* Mutant: the future is dropped into the background instead of awaited.
await_detached(outstanding) == outstanding

\* `.await` on a call: process_one goes on only when the call has
\* completed, which leaves one call fewer outstanding
await(outstanding) == outstanding - 1

BridgeInit ==
    /\ bpc = "idle"
    /\ lastRet = NoResult
    /\ recvOut = 0
    /\ sendOut = 0
    /\ rx = RecvOk(neutral)
    /\ sent = <<>>
    /\ sendRes = SendOk
    /\ held = NoState
    /\ heldAtStart = NoState
    /\ ret = NoResult

\* run()'s loop calls process_one(), which issues input.receive().
ProcessOneStart ==
    /\ bpc \in {"idle", "returned"}
    /\ run_loops(ret)
    /\ bpc' = "receiving"
    /\ sent' = <<>>
    /\ ret' = NoResult
    /\ lastRet' = ret
    /\ heldAtStart' = held
    /\ recvOut' = recvOut + 1
    /\ UNCHANGED <<rx, sendRes, held, sendOut>>
    /\ UNCHANGED <<parserVars, crcVars, asciiVars, updVars, mapVars, uartVars, mavVars, cpVars, ciVars, sgVars>>

\* receive() completes with r; the matching arm issues its output.send()
\* (an arm without a send returns at once).
ReceiveComplete ==
    /\ bpc = "receiving"
    /\ \E r \in RecvResults :
        /\ rx' = r
        /\ IF SendsOf(r) = <<>>
           THEN /\ bpc' = "returned"
                /\ ret' = process_one_result(r, SendOk)
                /\ sent' = sent
           ELSE /\ bpc' = "sending"
                /\ ret' = ret
                /\ sent' = Append(sent, SendsOf(r)[1])
    /\ recvOut' = await(recvOut)
    /\ sendOut' = IF SendsOf(rx') = <<>> THEN sendOut ELSE sendOut + 1
    /\ UNCHANGED <<sendRes, held, heldAtStart, lastRet>>
    /\ UNCHANGED <<parserVars, crcVars, asciiVars, updVars, mapVars, uartVars, mavVars, cpVars, ciVars, sgVars>>

\* send() completes with o; process_one returns.
SendComplete ==
    /\ bpc = "sending"
    /\ \E o \in SendResults :
        /\ sendRes' = o
        /\ held' = SinkAccept(held, sent[Len(sent)], o)
        /\ ret' = process_one_result(rx, o)
    /\ bpc' = "returned"
    /\ sendOut' = await(sendOut)
    /\ UNCHANGED <<rx, sent, heldAtStart, lastRet, recvOut>>
    /\ UNCHANGED <<parserVars, crcVars, asciiVars, updVars, mapVars, uartVars, mavVars, cpVars, ciVars, sgVars>>

BridgeNext ==
    \/ ProcessOneStart
    \/ ReceiveComplete
    \/ SendComplete

-----------------------------------------------------------------------------
(* MavlinkParser: mavlink-proto/src/parser.rs                              *)

MAVLINK_STX_V1 == 254
MAVLINK_STX_V2 == 253
MSG_ID_MANUAL_CONTROL == 69
MSG_ID_HEARTBEAT == 0
MAX_FRAME_SIZE == 280
CRC_INIT == 65535
CRC_EXTRA_MANUAL_CONTROL == 243
CRC_EXTRA_HEARTBEAT == 50

\* fn crc_accumulate(byte: u8, crc: u16) -> u16; tmp is a u16
crc_accumulate(byte, crc) ==
    LET t0 == BitXor(byte, crc % 256)
        tmp == BitXor(t0, Shl16(t0, 4))
    IN  BitXor(BitXor(BitXor(Shr(crc, 8), Shl16(tmp, 8)), Shl16(tmp, 3)), Shr(tmp, 4))

\* the `for &byte in data` loop of crc16_mcrf4xx over data[lo..hi], entered
\* with value crc (split in halves to keep the evaluation shallow)
RECURSIVE CrcLoop(_, _, _, _)
CrcLoop(data, lo, hi, crc) ==
    IF lo > hi THEN crc
    ELSE IF lo = hi THEN crc_accumulate(data[lo], crc)
    ELSE LET mid == (lo + hi) \div 2
             left == CrcLoop(data, lo, mid, crc)
         IN  IF left >= 0 THEN CrcLoop(data, mid + 1, hi, left) ELSE left

\* fn crc16_mcrf4xx(data: &[u8], crc_extra: u8) -> u16
crc16_mcrf4xx(data, crc_extra) ==
    crc_accumulate(crc_extra, CrcLoop(data, 1, Len(data), CRC_INIT))

\* struct ManualControl
ManualControl(target, x, y, z, r, buttons, buttons2) ==
    [target |-> target, x |-> x, y |-> y, z |-> z, r |-> r,
     buttons |-> buttons, buttons2 |-> buttons2]

NoMsg == ManualControl(0, 0, 0, 0, 0, 0, 0)

\* Result<Option<MavMessage>, ParseError>
ResNone == [tag |-> "None", msg |-> NoMsg, id |-> 0, err |-> "-"]
ResManualControl(m) == [tag |-> "ManualControl", msg |-> m, id |-> 0, err |-> "-"]
ResHeartbeat == [tag |-> "Heartbeat", msg |-> NoMsg, id |-> 0, err |-> "-"]
ResUnknown(id) == [tag |-> "Unknown", msg |-> NoMsg, id |-> id, err |-> "-"]
ResErr(e) == [tag |-> "Err", msg |-> NoMsg, id |-> 0, err |-> e]

\* A terminal outcome: Ok(Some(_)) or Err(_)
Terminal(res) == res.tag # "None"

\* MavlinkParser::new()
new ==
    [buffer |-> [i \in 0..(MAX_FRAME_SIZE - 1) |-> 0],
     pos |-> 0, state |-> "WaitingForStart", expected_len |-> 0]

\* self.buffer[i] and self.buffer[i] = b; an index outside the array panics,
\* which the caller finds in the indices the call reports
Rd(buf, i) == IF i \in DOMAIN buf THEN buf[i] ELSE 0
Wr(buf, i, b) == IF i \in DOMAIN buf THEN [buf EXCEPT ![i] = b] ELSE buf

\* Mutant: reset() forgets to go back to WaitingForStart.
reset_pos_only(p) == [p EXCEPT !.pos = 0]

\* Mutant: reset() forgets to rewind pos.
reset_state_only(p) == [p EXCEPT !.state = "WaitingForStart", !.expected_len = 0]

\* MavlinkParser::reset
reset(p) == [p EXCEPT !.pos = 0, !.state = "WaitingForStart", !.expected_len = 0]

\* Mutant: the 0xFD message id is read from its first byte only.
msg_id_of_one_byte(buf, is_v2) == IF is_v2 THEN Rd(buf, 7) ELSE Rd(buf, 5)

\* parse_frame, lines 163-172: the message id
msg_id_of(buf, is_v2) ==
    IF is_v2
    THEN Rd(buf, 7) + 256 * Rd(buf, 8) + 65536 * Rd(buf, 9)
    ELSE Rd(buf, 5)

\* Mutant: the received CRC is read big-endian.
received_crc_be(buf, crc_start) == 256 * Rd(buf, crc_start) + Rd(buf, crc_start + 1)

\* parse_frame, lines 188-189: the two trailing bytes, little-endian
received_crc(buf, crc_start) == Rd(buf, crc_start) + 256 * Rd(buf, crc_start + 1)

\* Mutant: the minimum payload length forgets the two button bytes.
parse_message_min9(msg_id, buf, payload_start, payload_len) ==
    LET payload(k) == Rd(buf, payload_start + k)
    IN  IF msg_id = MSG_ID_MANUAL_CONTROL
        THEN IF payload_len < 9
             THEN [res |-> ResErr("Incomplete"), pidx |-> {}]
             ELSE [res |-> ResManualControl(ManualControl(
                              payload(0),
                              i16_from_le_bytes(payload(1), payload(2)),
                              i16_from_le_bytes(payload(3), payload(4)),
                              i16_from_le_bytes(payload(5), payload(6)),
                              i16_from_le_bytes(payload(7), payload(8)),
                              u16_from_le_bytes(payload(9), payload(10)),
                              IF payload_len >= 13
                              THEN u16_from_le_bytes(payload(11), payload(12))
                              ELSE 0)),
                   pidx |-> IF payload_len >= 13 THEN 0..12 ELSE 0..10]
        ELSE IF msg_id = MSG_ID_HEARTBEAT
        THEN [res |-> ResHeartbeat, pidx |-> {}]
        ELSE [res |-> ResUnknown(msg_id), pidx |-> {}]

\* Mutant: buttons2 is decoded from the offset of buttons.
parse_message_buttons2_at_9(msg_id, buf, payload_start, payload_len) ==
    LET payload(k) == Rd(buf, payload_start + k)
    IN  IF msg_id = MSG_ID_MANUAL_CONTROL
        THEN IF payload_len < 11
             THEN [res |-> ResErr("Incomplete"), pidx |-> {}]
             ELSE [res |-> ResManualControl(ManualControl(
                              payload(0),
                              i16_from_le_bytes(payload(1), payload(2)),
                              i16_from_le_bytes(payload(3), payload(4)),
                              i16_from_le_bytes(payload(5), payload(6)),
                              i16_from_le_bytes(payload(7), payload(8)),
                              u16_from_le_bytes(payload(9), payload(10)),
                              IF payload_len >= 13
                              THEN u16_from_le_bytes(payload(9), payload(10))
                              ELSE 0)),
                   pidx |-> IF payload_len >= 13 THEN 0..12 ELSE 0..10]
        ELSE IF msg_id = MSG_ID_HEARTBEAT
        THEN [res |-> ResHeartbeat, pidx |-> {}]
        ELSE [res |-> ResUnknown(msg_id), pidx |-> {}]

\* parse_frame, lines 196-218: the message of a CRC-valid frame, and the
\* indices of the payload slice it reads
parse_message(msg_id, buf, payload_start, payload_len) ==
    LET payload(k) == Rd(buf, payload_start + k)
    IN  IF msg_id = MSG_ID_MANUAL_CONTROL
        THEN IF payload_len < 11
             THEN [res |-> ResErr("Incomplete"), pidx |-> {}]
             ELSE [res |-> ResManualControl(ManualControl(
                              payload(0),
                              i16_from_le_bytes(payload(1), payload(2)),
                              i16_from_le_bytes(payload(3), payload(4)),
                              i16_from_le_bytes(payload(5), payload(6)),
                              i16_from_le_bytes(payload(7), payload(8)),
                              u16_from_le_bytes(payload(9), payload(10)),
                              IF payload_len >= 13
                              THEN u16_from_le_bytes(payload(11), payload(12))
                              ELSE 0)),
                   pidx |-> IF payload_len >= 13 THEN 0..12 ELSE 0..10]
        ELSE IF msg_id = MSG_ID_HEARTBEAT
        THEN [res |-> ResHeartbeat, pidx |-> {}]
        ELSE [res |-> ResUnknown(msg_id), pidx |-> {}]

\* parse_frame, lines 178-182, for the two recognized ids
crc_extra_of(msg_id) ==
    IF msg_id = MSG_ID_MANUAL_CONTROL THEN CRC_EXTRA_MANUAL_CONTROL
    ELSE CRC_EXTRA_HEARTBEAT

\* MavlinkParser::parse_frame: the result, the buffer indices read (idx) and
\* whether every index into the payload slice was inside it (ok)
parse_frame(p) ==
    LET buf == p.buffer
        is_v2 == Rd(buf, 0) = MAVLINK_STX_V2
        payload_len == Rd(buf, 1)
        msg_id == msg_id_of(buf, is_v2)
        payload_start == IF is_v2 THEN 10 ELSE 6
        crc_start == payload_start + payload_len
        headIdx == {0, 1} \cup (IF is_v2 THEN {7, 8, 9} ELSE {5})
        sliceIdx == payload_start..(payload_start + payload_len - 1)
        crc_data_end == IF is_v2 THEN 10 + payload_len ELSE 6 + payload_len
        crcIdx == (1..(crc_data_end - 1)) \cup {crc_start, crc_start + 1}
    IN  IF msg_id \notin {MSG_ID_MANUAL_CONTROL, MSG_ID_HEARTBEAT}
        THEN [res |-> ResUnknown(msg_id), idx |-> headIdx \cup sliceIdx, ok |-> TRUE]
        ELSE LET calculated_crc ==
                     crc16_mcrf4xx([i \in 1..(crc_data_end - 1) |-> Rd(buf, i)],
                                   crc_extra_of(msg_id))
             IN  IF calculated_crc # received_crc(buf, crc_start)
                 THEN [res |-> ResErr("CrcError"),
                       idx |-> headIdx \cup sliceIdx \cup crcIdx, ok |-> TRUE]
                 ELSE LET m == parse_message(msg_id, buf, payload_start, payload_len)
                      IN  [res |-> m.res,
                           idx |-> headIdx \cup sliceIdx \cup crcIdx
                                     \cup {payload_start + k : k \in m.pidx},
                           ok |-> \A k \in m.pidx : k < payload_len]

\* push_byte, arm ParserState::WaitingForStart (113-120)
waiting_for_start(p, byte) ==
    IF byte = MAVLINK_STX_V1 \/ byte = MAVLINK_STX_V2
    THEN [p |-> [p EXCEPT !.buffer = Wr(@, 0, byte), !.pos = 1,
                          !.state = "ReadingHeader"],
          res |-> ResNone, idx |-> {0}, ok |-> TRUE]
    ELSE [p |-> p, res |-> ResNone, idx |-> {}, ok |-> TRUE]

\* Mutant: the header is taken to be 6 bytes whatever the start byte.
reading_header_six(p, byte) ==
    LET buf == Wr(p.buffer, p.pos, byte)
        pos == p.pos + 1
        header_size == 6
        payload_len == Rd(buf, 1)
        checksum_len == 2
        expected_len == header_size + payload_len + checksum_len
        q == [p EXCEPT !.buffer = buf, !.pos = pos]
    IN  IF pos >= header_size
        THEN IF expected_len > MAX_FRAME_SIZE
             THEN [p |-> reset(q), res |-> ResErr("InvalidStart"),
                   idx |-> {p.pos, 0, 1}, ok |-> TRUE]
             ELSE [p |-> [q EXCEPT !.state = "ReadingPayload",
                                   !.expected_len = expected_len],
                   res |-> ResNone, idx |-> {p.pos, 0, 1}, ok |-> TRUE]
        ELSE [p |-> q, res |-> ResNone, idx |-> {p.pos, 0}, ok |-> TRUE]

\* push_byte, arm ParserState::ReadingHeader (121-141)
reading_header(p, byte) ==
    LET buf == Wr(p.buffer, p.pos, byte)
        pos == p.pos + 1
        header_size == IF Rd(buf, 0) = MAVLINK_STX_V2 THEN 10 ELSE 6
        payload_len == Rd(buf, 1)
        checksum_len == 2
        expected_len == header_size + payload_len + checksum_len
        q == [p EXCEPT !.buffer = buf, !.pos = pos]
    IN  IF pos >= header_size
        THEN IF expected_len > MAX_FRAME_SIZE
             THEN [p |-> reset(q), res |-> ResErr("InvalidStart"),
                   idx |-> {p.pos, 0, 1}, ok |-> TRUE]
             ELSE [p |-> [q EXCEPT !.state = "ReadingPayload",
                                   !.expected_len = expected_len],
                   res |-> ResNone, idx |-> {p.pos, 0, 1}, ok |-> TRUE]
        ELSE [p |-> q, res |-> ResNone, idx |-> {p.pos, 0}, ok |-> TRUE]

\* Mutant: an Err from parse_frame returns before reset() (as with `?`).
reading_payload_err_no_reset(p, byte) ==
    LET q == [p EXCEPT !.buffer = Wr(p.buffer, p.pos, byte), !.pos = p.pos + 1]
    IN  IF q.pos >= p.expected_len
        THEN LET result == parse_frame(q)
             IN  [p |-> IF result.res.tag = "Err" THEN q ELSE reset(q),
                  res |-> result.res,
                  idx |-> {p.pos} \cup result.idx, ok |-> result.ok]
        ELSE [p |-> q, res |-> ResNone, idx |-> {p.pos}, ok |-> TRUE]

\* push_byte, arm ParserState::ReadingPayload (142-154)
reading_payload(p, byte) ==
    LET q == [p EXCEPT !.buffer = Wr(p.buffer, p.pos, byte), !.pos = p.pos + 1]
    IN  IF q.pos >= p.expected_len
        THEN LET result == parse_frame(q)
             IN  [p |-> reset(q), res |-> result.res,
                  idx |-> {p.pos} \cup result.idx, ok |-> result.ok]
        ELSE [p |-> q, res |-> ResNone, idx |-> {p.pos}, ok |-> TRUE]

\* MavlinkParser::push_byte: the parser afterwards (p), the value returned
\* (res), the buffer indices written or read (idx, ok)
push_byte(p, byte) ==
    IF p.state = "WaitingForStart" THEN waiting_for_start(p, byte)
    ELSE IF p.state = "ReadingHeader" THEN reading_header(p, byte)
    ELSE reading_payload(p, byte)

-----------------------------------------------------------------------------
(* The byte stream: frames a sender puts on the wire                       *)

\* Frames fed in one run
MaxFrames == 2

\* A sender's frame: wire-format version, declared payload length, message
\* id, first payload byte (payload byte k is base + k mod 256), how the CRC
\* bytes are written, and how many trailing bytes are missing.
Frame(ver, len, id, base, crc, cut) ==
    [kind |-> "frame", ver |-> ver, len |-> len, id |-> id, base |-> base,
     crc |-> crc, cut |-> cut]

\* A byte that starts no frame
Junk(b) ==
    [kind |-> "junk", ver |-> 0, len |-> 0, id |-> 0, base |-> b,
     crc |-> "-", cut |-> 0]

NoFrame == Junk(-1)

Frames ==
    { Frame(1, 9, 0, 1, "good", 0),         \* heartbeat
      Frame(2, 9, 0, 1, "good", 0),
      Frame(2, 255, 0, 0, "good", 0),       \* longest frame there is
      Frame(1, 9, 0, 1, "badlo", 0),
      Frame(1, 11, 69, 250, "good", 0),     \* manual-control, 0xFD 0xFE in payload
      Frame(1, 12, 69, 3, "good", 0),
      Frame(2, 13, 69, 120, "good", 0),
      Frame(1, 14, 69, 40, "good", 0),      \* one byte beyond buttons2
      Frame(1, 11, 69, 250, "badlo", 0),    \* wrong CRC
      Frame(2, 13, 69, 120, "badhi", 0),
      Frame(2, 11, 69, 3, "swapped", 0),
      Frame(1, 10, 69, 3, "good", 0),       \* too-short manual-control payload
      Frame(2, 0, 69, 0, "good", 0),
      Frame(1, 10, 69, 3, "badhi", 0),      \* too short and wrong CRC
      Frame(1, 3, 30, 7, "badlo", 0),       \* other message ids
      Frame(2, 11, 69 + 256, 3, "badhi", 0),
      Frame(2, 11, 69 + 65536, 3, "good", 0),
      Frame(1, 11, 69, 250, "good", 16),    \* cut short: in the header
      Frame(2, 13, 69, 120, "good", 1),     \* cut short: last byte missing
      Frame(1, 9, 0, 1, "good", 2),
      Junk(0), Junk(66) }

FrameHeader(d) ==
    IF d.ver = 1
    THEN <<MAVLINK_STX_V1, d.len, 7, 1, 190, d.id % 256>>
    ELSE <<MAVLINK_STX_V2, d.len, 0, 0, 7, 1, 190,
           d.id % 256, (d.id \div 256) % 256, (d.id \div 65536) % 256>>

FramePayload(d) == [k \in 1..d.len |-> (d.base + k - 1) % 256]

\* The CRC a sender computes for the frame: over the header after the start
\* byte, the payload and the CRC_EXTRA of the message kind
FrameCrc(d) ==
    crc16_mcrf4xx(Tail(FrameHeader(d)) \o FramePayload(d),
                  IF d.id = MSG_ID_MANUAL_CONTROL THEN CRC_EXTRA_MANUAL_CONTROL
                  ELSE IF d.id = MSG_ID_HEARTBEAT THEN CRC_EXTRA_HEARTBEAT
                  ELSE 0)

\* The CRC of each frame of Frames, computed once
FrameCrcOf == [d \in Frames |-> FrameCrc(d)]

\* The two trailing bytes as written
FrameCrcBytes(d) ==
    LET c == FrameCrcOf[d]
        lo == c % 256
        hi == c \div 256
    IN  IF d.crc = "good" THEN <<lo, hi>>
        ELSE IF d.crc = "badlo" THEN <<(lo + 1) % 256, hi>>
        ELSE IF d.crc = "badhi" THEN <<lo, (hi + 128) % 256>>
        ELSE <<hi, lo>>

FrameBytes(d) ==
    IF d.kind = "junk" THEN <<d.base>>
    ELSE LET full == FrameHeader(d) \o FramePayload(d) \o FrameCrcBytes(d)
         IN  SubSeq(full, 1, Len(full) - d.cut)

\* The bytes of each frame of Frames, computed once
FrameBytesOf == [d \in Frames |-> FrameBytes(d)]

\* The frame is complete: every byte up to its declared length is sent
Complete(d) == d.kind = "frame" /\ d.cut = 0

\* The trailing bytes equal the sender's CRC
CrcMatches(d) == FrameCrcBytes(d) = <<FrameCrcOf[d] % 256, FrameCrcOf[d] \div 256>>

ParserInit ==
    /\ parser = new
    /\ shadow = new
    /\ lastRes = ResNone
    /\ shadowRes = ResNone
    /\ access = [hi |-> -1, ok |-> TRUE]
    /\ panicked = FALSE
    /\ stream = <<>>
    /\ cur = NoFrame
    /\ prev = NoFrame
    /\ startRes = ResNone
    /\ sync = TRUE
    /\ nFrames = 0

\* The sender starts its next frame.
Feed ==
    /\ stream = <<>>
    /\ nFrames < MaxFrames
    /\ \E d \in Frames :
        /\ cur' = d
        /\ stream' = FrameBytesOf[d]
    /\ prev' = cur
    /\ startRes' = lastRes
    /\ sync' = (parser.state = "WaitingForStart")
    /\ nFrames' = nFrames + 1
    /\ UNCHANGED <<parser, shadow, lastRes, shadowRes, access, panicked>>
    /\ UNCHANGED <<bridgeVars, crcVars, asciiVars, updVars, mapVars, uartVars, mavVars, cpVars, ciVars, sgVars>>

SetMax(S) == IF S = {} THEN -1 ELSE CHOOSE x \in S : \A y \in S : y <= x

\* The receiver calls push_byte with the next byte of the stream. The same
\* byte goes to the shadow parser, which is replaced by a newly constructed
\* one at some of the terminal results.
PushByte ==
    /\ stream # <<>>
    /\ ~panicked
    /\ \E out \in {push_byte(parser, Head(stream))},
          sh \in {push_byte(shadow, Head(stream))} :
           /\ parser' = out.p
           /\ lastRes' = out.res
           /\ access' = [hi |-> SetMax(out.idx), ok |-> out.ok]
           /\ panicked' = (~out.ok \/ \E i \in out.idx : i >= MAX_FRAME_SIZE)
           /\ shadowRes' = sh.res
           /\ shadow' \in (IF Terminal(out.res) THEN {sh.p, new} ELSE {sh.p})
    /\ stream' = Tail(stream)
    /\ UNCHANGED <<cur, prev, startRes, sync, nFrames>>
    /\ UNCHANGED <<bridgeVars, crcVars, asciiVars, updVars, mapVars, uartVars, mavVars, cpVars, ciVars, sgVars>>

ParserNext ==
    \/ Feed
    \/ PushByte

-----------------------------------------------------------------------------
(* crc_accumulate and crc16_mcrf4xx applied to chosen inputs               *)

\* Longest data slice given to crc16_mcrf4xx
MaxCrcLen == 2

CrcBytes == {0, 1, 15, 16, 69, 128, 255}
CrcValues == {0, 1, 255, 256, 4112, 32768, 61455, 65535}

RECURSIVE SeqsUpTo(_, _)
SeqsUpTo(S, n) ==
    IF n = 0 THEN {<<>>}
    ELSE SeqsUpTo(S, n - 1) \cup {Append(q, b) : q \in SeqsUpTo(S, n - 1), b \in S}

CrcInputs ==
    {[fn |-> "crc_accumulate", byte |-> b, crc |-> c, data |-> <<>>, crc_extra |-> 0] :
        b \in 0..255, c \in CrcValues}
    \cup
    {[fn |-> "crc16_mcrf4xx", byte |-> 0, crc |-> 0, data |-> d, crc_extra |-> e] :
        d \in SeqsUpTo(CrcBytes, MaxCrcLen),
        e \in {0, CRC_EXTRA_HEARTBEAT, CRC_EXTRA_MANUAL_CONTROL}}

CrcIdle ==
    /\ crcIn = [fn |-> "-", byte |-> 0, crc |-> 0, data |-> <<>>, crc_extra |-> 0]
    /\ crcOut = -1

CrcInit ==
    /\ crcIn \in CrcInputs
    /\ crcOut = -1

ApplyCrcAccumulate ==
    /\ crcIn.fn = "crc_accumulate"
    /\ crcOut = -1
    /\ crcOut' = crc_accumulate(crcIn.byte, crcIn.crc)
    /\ UNCHANGED crcIn
    /\ UNCHANGED <<bridgeVars, parserVars, asciiVars, updVars, mapVars, uartVars, mavVars, cpVars, ciVars, sgVars>>

ApplyCrc16 ==
    /\ crcIn.fn = "crc16_mcrf4xx"
    /\ crcOut = -1
    /\ crcOut' = crc16_mcrf4xx(crcIn.data, crcIn.crc_extra)
    /\ UNCHANGED crcIn
    /\ UNCHANGED <<bridgeVars, parserVars, asciiVars, updVars, mapVars, uartVars, mavVars, cpVars, ciVars, sgVars>>

CrcNext ==
    \/ ApplyCrcAccumulate
    \/ ApplyCrc16

-----------------------------------------------------------------------------
(* ASCII codec, parser side: gamepad-core/src/parser.rs                    *)
(* A line is a sequence of bytes. Slices keep the source's 0-based,        *)
(* half-open bounds.                                                       *)

\* The byte value of each ASCII character the codec names
Ord ==
    ("G" :> 71) @@ ("U" :> 85) @@ ("*" :> 42) @@ (":" :> 58) @@ (" " :> 32) @@
    ("+" :> 43) @@ ("-" :> 45) @@ ("0" :> 48) @@ ("9" :> 57) @@ ("A" :> 65) @@
    ("F" :> 70) @@ ("a" :> 97) @@ ("f" :> 102) @@ ("B" :> 66) @@ ("L" :> 76) @@
    ("R" :> 82) @@ ("X" :> 88) @@ ("Y" :> 89) @@ ("T" :> 84) @@
    ("\n" :> 10) @@ ("\r" :> 13)

MIN_FULL_STATE_LEN == 20
MIN_UPDATE_LEN == 7

\* Result<T, InputError>; v is a value of T's shape when the result is Err
Ok(v) == [ok |-> TRUE, v |-> v, err |-> "-"]
Err(e, v) == [ok |-> FALSE, v |-> v, err |-> e]

\* enum ParsedMessage
NoUpdate == GamepadFieldUpdate("-", 0)
FullState(s) == [kind |-> "FullState", state |-> s, update |-> NoUpdate]
Update(u) == [kind |-> "Update", state |-> neutral, update |-> u]
NoMessage == [kind |-> "-", state |-> neutral, update |-> NoUpdate]

\* &s[from..to]
Slice(s, from, to) == SubSeq(s, from + 1, to)

\* Only({e(x) : x \in {v}}) is e(x) with x bound to the value of v, which is
\* then computed once
Only(S) == CHOOSE x \in S : TRUE

\* Iterator::position / rposition of the byte b: the 0-based index of its
\* first / last occurrence, -1 for None
position(s, b) ==
    LET S == {i \in 1..Len(s) : s[i] = b}
    IN  IF S = {} THEN -1 ELSE (CHOOSE i \in S : \A j \in S : i <= j) - 1
rposition(s, b) ==
    LET S == {i \in 1..Len(s) : s[i] = b}
    IN  IF S = {} THEN -1 ELSE (CHOOSE i \in S : \A j \in S : j <= i) - 1

\* slice::split on the byte b: the parts, at least one
RECURSIVE split(_, _)
split(s, b) ==
    IF position(s, b) = -1 THEN <<s>>
    ELSE <<Slice(s, 0, position(s, b))>> \o
         split(Slice(s, position(s, b) + 1, Len(s)), b)

\* The fold of calculate_checksum from the i-th byte on, four bytes at a
\* time while four are left: acc ^ b for each byte b in order
RECURSIVE fold_xor(_, _, _)
fold_xor(data, i, acc) ==
    IF i > Len(data) THEN acc
    ELSE IF i + 3 <= Len(data)
    THEN Only({ fold_xor(data, i + 4, a)
              : a \in {BitXor(BitXor(BitXor(BitXor(acc, data[i]), data[i + 1]),
                                     data[i + 2]), data[i + 3])} })
    ELSE Only({ fold_xor(data, i + 1, a) : a \in {BitXor(acc, data[i])} })

\* calculate_checksum: XOR of all bytes
calculate_checksum(data) == fold_xor(data, 1, 0)

\* strip_line_ending: one trailing LF, then one trailing CR
strip_line_ending(line) ==
    LET end1 == IF Len(line) > 0 /\ line[Len(line)] = Ord["\n"]
                THEN Len(line) - 1 ELSE Len(line)
        end2 == IF end1 > 0 /\ line[end1] = Ord["\r"] THEN end1 - 1 ELSE end1
    IN  Slice(line, 0, end2)

\* Mutant: lower-case hex letters are not hex digits.
hex_digit_upper_only(b) ==
    IF b \in Ord["0"]..Ord["9"] THEN Ok(b - Ord["0"])
    ELSE IF b \in Ord["A"]..Ord["F"] THEN Ok(b - Ord["A"] + 10)
    ELSE Err("Parse", 0)

hex_digit(b) ==
    IF b \in Ord["0"]..Ord["9"] THEN Ok(b - Ord["0"])
    ELSE IF b \in Ord["A"]..Ord["F"] THEN Ok(b - Ord["A"] + 10)
    ELSE IF b \in Ord["a"]..Ord["f"] THEN Ok(b - Ord["a"] + 10)
    ELSE Err("Parse", 0)

\* parse_hex_u16, the loop of lines 231-235 from the i-th byte on
RECURSIVE parse_hex_u16_loop(_, _, _)
parse_hex_u16_loop(s, i, value) ==
    IF i > Len(s) THEN Ok(value)
    ELSE IF ~hex_digit(s[i]).ok THEN Err("Parse", 0)
    ELSE parse_hex_u16_loop(s, i + 1, Shl16(value, 4) + hex_digit(s[i]).v)

parse_hex_u16(s) ==
    IF Len(s) # 4 THEN Err("Parse", 0) ELSE parse_hex_u16_loop(s, 1, 0)

parse_hex_u8(s) ==
    IF Len(s) # 2 THEN Err("Parse", 0)
    ELSE IF ~hex_digit(s[1]).ok THEN Err("Parse", 0)
    ELSE IF ~hex_digit(s[2]).ok THEN Err("Parse", 0)
    ELSE Ok(((hex_digit(s[1]).v * 16) % 256) + hex_digit(s[2]).v)

\* trim_leading_whitespace: drops leading spaces
trim_leading_whitespace(s) ==
    LET S == {i \in 1..Len(s) : s[i] # Ord[" "]}
        start == IF S = {} THEN Len(s)
                 ELSE (CHOOSE i \in S : \A j \in S : i <= j) - 1
    IN  Slice(s, start, Len(s))

is_ascii_digit(b) == b \in Ord["0"]..Ord["9"]

\* The digit loop of parse_i16 and parse_u8 from the i-th byte on, in an
\* integer type whose largest value is max: checked_mul(10), then
\* checked_add(digit). -1 stands for the early return of Err(Parse).
RECURSIVE digit_loop(_, _, _, _)
digit_loop(s, i, value, max) ==
    IF i > Len(s) THEN value
    ELSE IF ~is_ascii_digit(s[i]) THEN -1
    ELSE IF value > max \div 10 THEN -1
    ELSE IF value * 10 > max - (s[i] - Ord["0"]) THEN -1
    ELSE digit_loop(s, i + 1, value * 10 + (s[i] - Ord["0"]), max)

\* Mutant: the range check of parse_i16 is symmetric.
parse_i16_symmetric(s0) ==
    LET s1 == trim_leading_whitespace(s0)
        negative == s1 # <<>> /\ s1[1] = Ord["-"]
        s == IF s1 # <<>> /\ s1[1] \in {Ord["-"], Ord["+"]}
             THEN Slice(s1, 1, Len(s1)) ELSE s1
        value == digit_loop(s, 1, 0, 2147483647)
    IN  IF s1 = <<>> THEN Err("Parse", 0)
        ELSE IF s = <<>> THEN Err("Parse", 0)
        ELSE IF value = -1 THEN Err("Parse", 0)
        ELSE IF (IF negative THEN -value ELSE value) < -32767
                \/ (IF negative THEN -value ELSE value) > 32767
        THEN Err("Parse", 0)
        ELSE Ok(IF negative THEN -value ELSE value)

\* parse_i16: value is an i32 while the digits are read
parse_i16(s0) ==
    LET s1 == trim_leading_whitespace(s0)
        negative == s1 # <<>> /\ s1[1] = Ord["-"]
        s == IF s1 # <<>> /\ s1[1] \in {Ord["-"], Ord["+"]}
             THEN Slice(s1, 1, Len(s1)) ELSE s1
        value == digit_loop(s, 1, 0, 2147483647)
    IN  IF s1 = <<>> THEN Err("Parse", 0)
        ELSE IF s = <<>> THEN Err("Parse", 0)
        ELSE IF value = -1 THEN Err("Parse", 0)
        ELSE IF (IF negative THEN -value ELSE value) < -32768
                \/ (IF negative THEN -value ELSE value) > 32767
        THEN Err("Parse", 0)
        ELSE Ok(IF negative THEN -value ELSE value)

\* Mutant: parse_u8 reads an optional '+' as parse_i16 does.
parse_u8_plus(s0) ==
    LET s1 == trim_leading_whitespace(s0)
        s == IF s1 # <<>> /\ s1[1] = Ord["+"]
             THEN Slice(s1, 1, Len(s1)) ELSE s1
        value == digit_loop(s, 1, 0, 65535)
    IN  IF s = <<>> THEN Err("Parse", 0)
        ELSE IF value = -1 THEN Err("Parse", 0)
        ELSE IF value > 255 THEN Err("Parse", 0)
        ELSE Ok(value)

\* parse_u8: value is a u16 while the digits are read; no sign is read
parse_u8(s0) ==
    LET s == trim_leading_whitespace(s0)
        value == digit_loop(s, 1, 0, 65535)
    IN  IF s = <<>> THEN Err("Parse", 0)
        ELSE IF value = -1 THEN Err("Parse", 0)
        ELSE IF value > 255 THEN Err("Parse", 0)
        ELSE Ok(value)

\* Mutant: the received checksum is parsed but not compared.
extract_verified_payload_unverified(line, min_len) ==
    LET checksum_pos == rposition(line, Ord["*"])
        payload == Slice(line, 1, checksum_pos)
        checksum_str == Slice(line, checksum_pos + 1, Len(line))
        received_checksum == parse_hex_u8(checksum_str)
    IN  IF Len(line) < min_len THEN Err("Parse", <<>>)
        ELSE IF checksum_pos = -1 THEN Err("Parse", <<>>)
        ELSE IF checksum_pos + 3 > Len(line) THEN Err("Parse", <<>>)
        ELSE IF ~received_checksum.ok THEN Err("Parse", <<>>)
        ELSE Ok(payload)

\* extract_verified_payload: the bytes between the prefix and the last '*'.
\* Its callers have checked line[0], so checksum_pos is at least 1.
extract_verified_payload(line, min_len) ==
    LET checksum_pos == rposition(line, Ord["*"])
        payload == Slice(line, 1, checksum_pos)
        checksum_str == Slice(line, checksum_pos + 1, Len(line))
        expected_checksum == calculate_checksum(payload)
        received_checksum == parse_hex_u8(checksum_str)
    IN  IF Len(line) < min_len THEN Err("Parse", <<>>)
        ELSE IF checksum_pos = -1 THEN Err("Parse", <<>>)
        ELSE IF checksum_pos + 3 > Len(line) THEN Err("Parse", <<>>)
        ELSE IF ~received_checksum.ok THEN Err("Parse", <<>>)
        ELSE IF expected_checksum # received_checksum.v THEN Err("Checksum", <<>>)
        ELSE Ok(payload)

\* parse_full_state, lines 83-97: the seven parts to a GamepadState
parse_full_state_fields(parts) ==
    LET buttons == parse_hex_u16(parts[1])
        lx == parse_i16(parts[2])
        ly == parse_i16(parts[3])
        right_x == parse_i16(parts[4])
        ry == parse_i16(parts[5])
        lt == parse_u8(parts[6])
        rt == parse_u8(parts[7])
    IN  IF ~buttons.ok THEN Err(buttons.err, neutral)
        ELSE IF ~lx.ok THEN Err(lx.err, neutral)
        ELSE IF ~ly.ok THEN Err(ly.err, neutral)
        ELSE IF ~right_x.ok THEN Err(right_x.err, neutral)
        ELSE IF ~ry.ok THEN Err(ry.err, neutral)
        ELSE IF ~lt.ok THEN Err(lt.err, neutral)
        ELSE IF ~rt.ok THEN Err(rt.err, neutral)
        ELSE Ok(GamepadState(buttons.v, AnalogStick(lx.v, ly.v),
                             AnalogStick(right_x.v, ry.v), lt.v, rt.v))

\* Mutant: parts after the seventh are ignored.
parse_full_state_extra_parts(line) ==
    IF line = <<>> \/ line[1] # Ord["G"] THEN Err("Parse", neutral)
    ELSE Only({
        IF ~payload.ok THEN Err(payload.err, neutral)
        ELSE Only({
            IF Len(parts) < 7 THEN Err("Parse", neutral)
            ELSE parse_full_state_fields(parts)
          : parts \in {split(payload.v, Ord[":"])} })
      : payload \in {extract_verified_payload(line, MIN_FULL_STATE_LEN)} })

\* parse_full_state: a line without its line ending to a GamepadState
parse_full_state(line) ==
    IF line = <<>> \/ line[1] # Ord["G"] THEN Err("Parse", neutral)
    ELSE Only({
        IF ~payload.ok THEN Err(payload.err, neutral)
        ELSE Only({
            IF Len(parts) < 7 THEN Err("Parse", neutral)
            ELSE IF Len(parts) > 7 THEN Err("Parse", neutral)
            ELSE parse_full_state_fields(parts)
          : parts \in {split(payload.v, Ord[":"])} })
      : payload \in {extract_verified_payload(line, MIN_FULL_STATE_LEN)} })

\* parse: a line to a GamepadState
parse(line0) ==
    Only({ parse_full_state(line) : line \in {strip_line_ending(line0)} })

\* parse_update, lines 162-171: the field identifier and the value text to
\* a GamepadFieldUpdate
parse_update_field(field, value) ==
    LET hex == parse_hex_u16(value)
        stick == parse_i16(value)
        trigger == parse_u8(value)
        to(name, r) == IF r.ok THEN Ok(GamepadFieldUpdate(name, r.v))
                       ELSE Err(r.err, NoUpdate)
    IN  IF field = <<Ord["B"]>> THEN to("Buttons", hex)
        ELSE IF field = <<Ord["L"], Ord["X"]>> THEN to("LeftStickX", stick)
        ELSE IF field = <<Ord["L"], Ord["Y"]>> THEN to("LeftStickY", stick)
        ELSE IF field = <<Ord["R"], Ord["X"]>> THEN to("RightStickX", stick)
        ELSE IF field = <<Ord["R"], Ord["Y"]>> THEN to("RightStickY", stick)
        ELSE IF field = <<Ord["L"], Ord["T"]>> THEN to("LeftTrigger", trigger)
        ELSE IF field = <<Ord["R"], Ord["T"]>> THEN to("RightTrigger", trigger)
        ELSE Err("Parse", NoUpdate)

\* parse_update: a line without its line ending to a GamepadFieldUpdate
parse_update(line) ==
    IF line = <<>> \/ line[1] # Ord["U"] THEN Err("Parse", NoUpdate)
    ELSE Only({
        IF ~payload.ok THEN Err(payload.err, NoUpdate)
        ELSE Only({
            IF colon_pos = -1 THEN Err("Parse", NoUpdate)
            ELSE parse_update_field(Slice(payload.v, 0, colon_pos),
                                    Slice(payload.v, colon_pos + 1, Len(payload.v)))
          : colon_pos \in {position(payload.v, Ord[":"])} })
      : payload \in {extract_verified_payload(line, MIN_UPDATE_LEN)} })

\* parse_message of gamepad-core: a line to a ParsedMessage, by its first byte
gamepad_parse_message(line0) ==
    Only({
        IF line = <<>> THEN Err("Parse", NoMessage)
        ELSE IF line[1] = Ord["G"]
        THEN Only({ IF full.ok THEN Ok(FullState(full.v))
                    ELSE Err(full.err, NoMessage)
                  : full \in {parse_full_state(line)} })
        ELSE IF line[1] = Ord["U"]
        THEN Only({ IF upd.ok THEN Ok(Update(upd.v))
                    ELSE Err(upd.err, NoMessage)
                  : upd \in {parse_update(line)} })
        ELSE Err("Parse", NoMessage)
      : line \in {strip_line_ending(line0)} })

-----------------------------------------------------------------------------
(* ASCII codec, serializer side: gamepad-proto/src/serialize.rs and        *)
(* format.rs. A write_* function is modelled by the bytes it writes; the   *)
(* count it returns is their number.                                       *)

MAX_FULL_STATE_SIZE == 48
MAX_UPDATE_SIZE == 16

\* b"0123456789ABCDEF"
HEX_DIGITS == <<48, 49, 50, 51, 52, 53, 54, 55, 56, 57, 65, 66, 67, 68, 69, 70>>

write_hex_u16(value) ==
    << HEX_DIGITS[(Shr(value, 12) % 16) + 1],
       HEX_DIGITS[(Shr(value, 8) % 16) + 1],
       HEX_DIGITS[(Shr(value, 4) % 16) + 1],
       HEX_DIGITS[(value % 16) + 1] >>

write_hex_u8(value) ==
    << HEX_DIGITS[Shr(value, 4) + 1], HEX_DIGITS[(value % 16) + 1] >>

\* The temp buffer of write_i16 and write_u8: the digits of n, lowest first
RECURSIVE write_temp(_)
write_temp(n) ==
    IF n = 0 THEN <<>> ELSE <<Ord["0"] + (n % 10)>> \o write_temp(n \div 10)

\* The copy loops of write_i16 and write_u8: temp from its last byte down
copy_rev(temp) == [i \in 1..Len(temp) |-> temp[Len(temp) + 1 - i]]

write_i16(value) ==
    IF value = 0 THEN <<Ord["0"]>>
    ELSE IF value = -32768 THEN <<Ord["-"], 51, 50, 55, 54, 56>>
    ELSE IF value < 0 THEN <<Ord["-"]>> \o copy_rev(write_temp(-value))
    ELSE copy_rev(write_temp(value))

\* Mutant: the digits are copied in the order of the temp buffer.
write_u8_lowest_first(value) ==
    IF value = 0 THEN <<Ord["0"]>> ELSE write_temp(value)

write_u8(value) ==
    IF value = 0 THEN <<Ord["0"]>> ELSE copy_rev(write_temp(value))

\* calculate_checksum as serialize.rs imports it from the parser module of
\* gamepad-proto: the XOR fold of the payload bytes
proto_calculate_checksum(data) == calculate_checksum(data)

\* Result<usize, SerializeError> together with the caller's buffer after
\* the call
SerializeOk(n, buf) == [ok |-> TRUE, n |-> n, buf |-> buf, err |-> "-"]
SerializeErr(e, buf) == [ok |-> FALSE, n |-> 0, buf |-> buf, err |-> e]

\* serialize, lines 183-205 and 292-314: prefix, payload, '*', checksum and
\* line feed written to the front of buf
write_message(prefix, payload, buf) ==
    LET msg == <<prefix>> \o payload \o <<Ord["*"]>> \o
               write_hex_u8(proto_calculate_checksum(payload)) \o <<Ord["\n"]>>
    IN  SerializeOk(Len(msg), msg \o Slice(buf, Len(msg), Len(buf)))

\* The payload of a full-state message, lines 137-180
full_state_payload(self) ==
    write_hex_u16(self.buttons) \o <<Ord[":"]>> \o
    write_i16(self.left_stick.x) \o <<Ord[":"]>> \o
    write_i16(self.left_stick.y) \o <<Ord[":"]>> \o
    write_i16(self.right_stick.x) \o <<Ord[":"]>> \o
    write_i16(self.right_stick.y) \o <<Ord[":"]>> \o
    write_u8(self.left_trigger) \o <<Ord[":"]>> \o
    write_u8(self.right_trigger)

\* Mutant: the buffer is too small only when the message does not fit.
GamepadState_serialize_if_fits(self, buf) ==
    IF Len(buf) < Len(full_state_payload(self)) + 5
    THEN SerializeErr("BufferTooSmall", buf)
    ELSE write_message(Ord["G"], full_state_payload(self), buf)

\* <GamepadState as Serialize>::serialize
GamepadState_serialize(self, buf) ==
    IF Len(buf) < MAX_FULL_STATE_SIZE THEN SerializeErr("BufferTooSmall", buf)
    ELSE write_message(Ord["G"], full_state_payload(self), buf)

\* The payload of an update message, lines 234-287
update_payload(self) ==
    CASE self.field = "Buttons" ->
             <<Ord["B"], Ord[":"]>> \o write_hex_u16(self.value)
      [] self.field = "LeftStickX" ->
             <<Ord["L"], Ord["X"], Ord[":"]>> \o write_i16(self.value)
      [] self.field = "LeftStickY" ->
             <<Ord["L"], Ord["Y"], Ord[":"]>> \o write_i16(self.value)
      [] self.field = "RightStickX" ->
             <<Ord["R"], Ord["X"], Ord[":"]>> \o write_i16(self.value)
      [] self.field = "RightStickY" ->
             <<Ord["R"], Ord["Y"], Ord[":"]>> \o write_i16(self.value)
      [] self.field = "LeftTrigger" ->
             <<Ord["L"], Ord["T"], Ord[":"]>> \o write_u8(self.value)
      [] self.field = "RightTrigger" ->
             <<Ord["R"], Ord["T"], Ord[":"]>> \o write_u8(self.value)

\* <GamepadFieldUpdate as Serialize>::serialize
GamepadFieldUpdate_serialize(self, buf) ==
    IF Len(buf) < MAX_UPDATE_SIZE THEN SerializeErr("BufferTooSmall", buf)
    ELSE write_message(Ord["U"], update_payload(self), buf)

-----------------------------------------------------------------------------
(* The callers of the ASCII codec: values to serialize, and lines as a     *)
(* sender writes them                                                      *)

MaxSpaces == 2
MaxZeros == 11

\* The values passed to <GamepadState as Serialize>::serialize
AsciiStates ==
    { GamepadState(b, AnalogStick(lx, a[1]), AnalogStick(a[2], a[3]), t[1], t[2]) :
        b \in {0, 43981, 65535}, lx \in {-32768, -1, 0, 32767},
        a \in {<<-32768, -32768, -32768>>, <<9, 1000, 32767>>, <<0, 0, 0>>},
        t \in {<<0, 255>>, <<9, 10>>, <<255, 255>>, <<128, 0>>} }

\* The values passed to <GamepadFieldUpdate as Serialize>::serialize
AsciiUpdates ==
    { GamepadFieldUpdate("Buttons", v) : v \in {0, 1, 43981, 65535} } \cup
    { GamepadFieldUpdate(f, v) :
        f \in {"LeftStickX", "LeftStickY", "RightStickX", "RightStickY"},
        v \in {-32768, -1, 0, 7, 32767} } \cup
    { GamepadFieldUpdate(f, v) :
        f \in {"LeftTrigger", "RightTrigger"}, v \in {0, 9, 10, 128, 255} }

\* The lengths of the buffers passed to serialize
StateBufLens == {0, 21, 45, 47, 48, 64}
UpdateBufLens == {0, 8, 14, 15, 16, 32}

\* A caller's buffer of n bytes, none of which a message contains
Buffer(n) == [i \in 1..n |-> 170]

\* One part of a payload as the sender writes it: sp spaces, a sign ("",
\* "+" or "-"), decimal digits, then raw bytes
Part(sp, sign, digits, raw) ==
    [sp |-> sp, sign |-> sign, digits |-> digits, raw |-> raw]

PartText(p) ==
    [i \in 1..p.sp |-> 32] \o
    (IF p.sign = "+" THEN <<43>> ELSE IF p.sign = "-" THEN <<45>> ELSE <<>>) \o
    [i \in 1..Len(p.digits) |-> 48 + p.digits[i]] \o
    p.raw

\* A line as the sender writes it: prefix bytes, the parts of the payload
\* (joined by ':'), how the checksum is written, and the line ending
Msg(prefix, parts, ck, ending) ==
    [prefix |-> prefix, parts |-> parts, ck |-> ck, ending |-> ending]

NoMsgLine == Msg(<<>>, <<>>, "-", <<>>)

RECURSIVE JoinParts(_, _)
JoinParts(parts, n) ==
    IF n = 0 THEN <<>>
    ELSE IF n = 1 THEN PartText(parts[1])
    ELSE JoinParts(parts, n - 1) \o <<58>> \o PartText(parts[n])

Payload(m) == JoinParts(m.parts, Len(m.parts))

\* The XOR of the first n bytes of a sequence, as the sender computes it:
\* bit k of it is the parity of bit k over the bytes
XorFold(s, n) ==
    LET Parity(k) == Cardinality({i \in 1..n : (s[i] \div Pow2(k)) % 2 = 1}) % 2
    IN  Parity(0) + 2 * Parity(1) + 4 * Parity(2) + 8 * Parity(3)
        + 16 * Parity(4) + 32 * Parity(5) + 64 * Parity(6) + 128 * Parity(7)

UpperHex(d) == IF d < 10 THEN 48 + d ELSE 55 + d
LowerHex(d) == IF d < 10 THEN 48 + d ELSE 87 + d

\* What the sender writes after the payload
CkText(m) ==
    LET ck == XorFold(Payload(m), Len(Payload(m)))
        bad == (ck + 17) % 256
    IN  CASE m.ck = "good" -> <<42, UpperHex(ck \div 16), UpperHex(ck % 16)>>
          [] m.ck = "lower" -> <<42, LowerHex(ck \div 16), LowerHex(ck % 16)>>
          [] m.ck = "bad" -> <<42, UpperHex(bad \div 16), UpperHex(bad % 16)>>
          [] m.ck = "badlower" -> <<42, LowerHex(bad \div 16), LowerHex(bad % 16)>>
          [] m.ck = "one" -> <<42, UpperHex(ck % 16)>>
          [] m.ck = "three" -> <<42, UpperHex(ck \div 16), UpperHex(ck % 16), 48>>
          [] m.ck = "nonhex" -> <<42, 71, UpperHex(ck % 16)>>
          [] m.ck = "nostar" -> <<UpperHex(ck \div 16), UpperHex(ck % 16)>>
          [] m.ck = "none" -> <<>>

Render(m) == m.prefix \o Payload(m) \o CkText(m) \o m.ending

\* Digit strings around the limits of u8, i16, u16 and i32, and one with
\* leading zeros
DigitStrings ==
    { <<0>>, <<7>>, <<2, 5, 5>>, <<2, 5, 6>>,
      <<3, 2, 7, 6, 7>>, <<3, 2, 7, 6, 8>>, <<3, 2, 7, 6, 9>>,
      <<6, 5, 5, 3, 5>>, <<6, 5, 5, 3, 6>>,
      [i \in 1..MaxZeros |-> 0] \o <<7>>,
      <<2, 1, 4, 7, 4, 8, 3, 6, 4, 7>>, <<2, 1, 4, 7, 4, 8, 3, 6, 4, 8>>,
      <<4, 2, 9, 4, 9, 6, 7, 3, 0, 3>>, <<>> }

\* Texts of a numeric field: decimal numbers with and without sign and
\* leading spaces, and five that are no decimal number
NumParts ==
    { Part(0, sg, d, <<>>) : sg \in {"", "+", "-"}, d \in DigitStrings } \cup
    { Part(MaxSpaces, sg, d, <<>>) :
        sg \in {"", "+", "-"}, d \in {<<7>>, <<2, 5, 5>>, <<>>} } \cup
    { Part(0, "", <<5>>, <<32>>), Part(0, "", <<1>>, <<97>>),
      Part(0, "-", <<>>, <<32, 53>>), Part(0, "-", <<>>, <<45, 53>>),
      Part(0, "+", <<>>, <<45, 53>>) }

Raw(bytes) == Part(0, "", <<>>, bytes)
Num(n) == Part(0, "", <<n>>, <<>>)

\* Texts of the buttons field: 4 hex digits in either case, and others
HexParts ==
    { Raw(<<48, 48, 48, 48>>), Raw(<<48, 48, 48, 49>>), Raw(<<65, 66, 67, 68>>),
      Raw(<<97, 98, 99, 100>>), Raw(<<70, 70, 70, 70>>), Raw(<<48, 48, 48>>),
      Raw(<<48, 48, 48, 48, 48>>), Raw(<<48, 48, 71, 48>>), Raw(<<>>),
      Raw(<<43, 48, 48, 49>>), Raw(<<32, 48, 48, 49>>) }

\* The parts of "ABCD:0:0:0:0:0:0"
BaseParts == <<Raw(<<65, 66, 67, 68>>), Num(0), Num(0), Num(0), Num(0), Num(0), Num(0)>>

\* The field identifiers of an update: "LX", "LY", "RX", "RY", "LT", "RT"
NumIds ==
    { Raw(<<76, 88>>), Raw(<<76, 89>>), Raw(<<82, 88>>), Raw(<<82, 89>>),
      Raw(<<76, 84>>), Raw(<<82, 84>>) }

\* Full-state and update lines with one numeric or buttons field varied;
\* with a wrong checksum for the first stick and the first trigger
FieldMsgs ==
    { Msg(<<71>>, [BaseParts EXCEPT ![k] = p], "good", <<10>>) :
        k \in 2..7, p \in NumParts } \cup
    { Msg(<<71>>, [BaseParts EXCEPT ![k] = p], "bad", <<10>>) :
        k \in {2, 6}, p \in NumParts } \cup
    { Msg(<<85>>, <<id, p>>, "good", <<10>>) : id \in NumIds, p \in NumParts } \cup
    { Msg(<<85>>, <<id, p>>, "bad", <<10>>) :
        id \in {Raw(<<76, 88>>), Raw(<<76, 84>>)}, p \in NumParts } \cup
    { Msg(<<71>>, [BaseParts EXCEPT ![1] = p], ck, <<10>>) :
        p \in HexParts, ck \in {"good", "bad"} } \cup
    { Msg(<<85>>, <<Raw(<<66>>), p>>, ck, <<10>>) :
        p \in HexParts, ck \in {"good", "bad"} }

\* Payloads for the framing of a line: 7, 6 and 8 parts, "LX:5", "B:0001",
\* unknown and empty identifiers, no colon, a '*' in the payload, nothing
FramingParts ==
    { BaseParts, SubSeq(BaseParts, 1, 6), Append(BaseParts, Num(0)),
      <<Raw(<<76, 88>>), Num(5)>>, <<Raw(<<66>>), Raw(<<48, 48, 48, 49>>)>>,
      <<Raw(<<76, 90>>), Num(5)>>, <<Raw(<<76>>), Num(5)>>,
      <<Raw(<<108, 120>>), Num(5)>>, <<Raw(<<>>), Num(5)>>,
      <<Raw(<<76, 88, 53>>)>>, <<Raw(<<76, 88>>), Num(5), Num(5)>>,
      <<Raw(<<76, 88>>), Raw(<<53, 42>>)>>, <<>> }

\* Lines with every prefix, payload shape and checksum form, and lines with
\* every line ending
FramingMsgs ==
    { Msg(pre, parts, ck, <<10>>) :
        pre \in {<<71>>, <<85>>, <<88>>, <<103>>, <<>>},
        parts \in FramingParts,
        ck \in {"good", "lower", "bad", "badlower", "one", "three", "nonhex",
                "nostar", "none"} } \cup
    { Msg(pre, parts, ck, ending) :
        pre \in {<<71>>, <<85>>},
        parts \in {BaseParts, <<Raw(<<76, 88>>), Num(5)>>, <<>>},
        ck \in {"good", "bad", "none"},
        ending \in {<<>>, <<13, 10>>, <<13>>, <<10, 13>>, <<10, 10>>} }

AsciiMsgs == FieldMsgs \cup FramingMsgs

\* Before any call
NoParse == Err("-", neutral)
NoParseMessage == Err("-", NoMessage)
NoSerialize == SerializeErr("-", <<>>)

AsciiInit ==
    /\ aOp = "-"
    /\ aMsg = NoMsgLine
    /\ aLine = <<>>
    /\ aRes = NoParse
    /\ aMsgRes = NoParseMessage
    /\ aOrig = <<>>
    /\ aAlt = "-"
    /\ aVal = NoMessage
    /\ aBuf = <<>>
    /\ aSer = NoSerialize

\* parse and parse_message are called on a line a sender wrote.
ParseLine ==
    /\ aOp = "-"
    /\ \E m \in AsciiMsgs :
       \E line \in {Render(m)} :
        /\ aMsg' = m
        /\ aLine' = line
        /\ aRes' = parse(line)
        /\ aMsgRes' = gamepad_parse_message(line)
    /\ aOp' = "parse"
    /\ UNCHANGED <<aOrig, aAlt, aVal, aBuf, aSer>>
    /\ UNCHANGED <<bridgeVars, parserVars, crcVars, updVars, mapVars, uartVars, mavVars, cpVars, ciVars, sgVars>>

\* The bytes a line is altered to
AlterBytes == {49, 42}

\* The byte pairs the checksum characters are altered to: "00", "FF", "5a",
\* "5A", "G0", "*0", and the characters at hand in the other letter case
AlterPairs(c1, c2) ==
    LET other(c) == IF c \in 65..70 THEN c + 32
                    ELSE IF c \in 97..102 THEN c - 32 ELSE c
    IN  { <<48, 48>>, <<70, 70>>, <<53, 97>>, <<53, 65>>, <<71, 48>>, <<42, 48>>,
          <<other(c1), other(c2)>> } \ { <<c1, c2>> }

\* An accepted line comes back with one payload byte changed and is parsed
\* again.
ParseAlteredPayload ==
    /\ aOp = "parse"
    /\ aRes.ok \/ aMsgRes.ok
    /\ \E i \in 2..(1 + Len(Payload(aMsg))), b \in AlterBytes :
       \E line \in {[aLine EXCEPT ![i] = b]} :
        /\ b # aLine[i]
        /\ aLine' = line
        /\ aRes' = parse(line)
        /\ aMsgRes' = gamepad_parse_message(line)
    /\ aOp' = "altered"
    /\ aOrig' = aLine
    /\ aAlt' = "payload"
    /\ UNCHANGED <<aMsg, aVal, aBuf, aSer>>
    /\ UNCHANGED <<bridgeVars, parserVars, crcVars, updVars, mapVars, uartVars, mavVars, cpVars, ciVars, sgVars>>

\* An accepted line comes back with its two checksum characters changed and
\* is parsed again.
ParseAlteredChecksum ==
    /\ aOp = "parse"
    /\ aRes.ok \/ aMsgRes.ok
    /\ \E i \in {3 + Len(Payload(aMsg))} :
       \E pair \in AlterPairs(aLine[i], aLine[i + 1]) :
       \E line \in {[aLine EXCEPT ![i] = pair[1], ![i + 1] = pair[2]]} :
        /\ aLine' = line
        /\ aRes' = parse(line)
        /\ aMsgRes' = gamepad_parse_message(line)
    /\ aOp' = "altered"
    /\ aOrig' = aLine
    /\ aAlt' = "checksum"
    /\ UNCHANGED <<aMsg, aVal, aBuf, aSer>>
    /\ UNCHANGED <<bridgeVars, parserVars, crcVars, updVars, mapVars, uartVars, mavVars, cpVars, ciVars, sgVars>>

\* <GamepadState as Serialize>::serialize is called.
SerializeState ==
    /\ aOp = "-"
    /\ \E s \in AsciiStates, n \in StateBufLens :
        /\ aVal' = FullState(s)
        /\ aBuf' = Buffer(n)
        /\ aSer' = GamepadState_serialize(s, Buffer(n))
    /\ aOp' = "state"
    /\ UNCHANGED <<aMsg, aLine, aRes, aMsgRes, aOrig, aAlt>>
    /\ UNCHANGED <<bridgeVars, parserVars, crcVars, updVars, mapVars, uartVars, mavVars, cpVars, ciVars, sgVars>>

\* <GamepadFieldUpdate as Serialize>::serialize is called.
SerializeUpdate ==
    /\ aOp = "-"
    /\ \E u \in AsciiUpdates, n \in UpdateBufLens :
        /\ aVal' = Update(u)
        /\ aBuf' = Buffer(n)
        /\ aSer' = GamepadFieldUpdate_serialize(u, Buffer(n))
    /\ aOp' = "update"
    /\ UNCHANGED <<aMsg, aLine, aRes, aMsgRes, aOrig, aAlt>>
    /\ UNCHANGED <<bridgeVars, parserVars, crcVars, updVars, mapVars, uartVars, mavVars, cpVars, ciVars, sgVars>>

\* parse and parse_message are called on the bytes serialize wrote.
ParseWritten ==
    /\ aOp \in {"state", "update"}
    /\ aSer.ok
    /\ \E line \in {Slice(aSer.buf, 0, aSer.n)} :
        /\ aLine' = line
        /\ aRes' = parse(line)
        /\ aMsgRes' = gamepad_parse_message(line)
    /\ aOp' = "written"
    /\ UNCHANGED <<aMsg, aOrig, aAlt, aVal, aBuf, aSer>>
    /\ UNCHANGED <<bridgeVars, parserVars, crcVars, updVars, mapVars, uartVars, mavVars, cpVars, ciVars, sgVars>>

AsciiNext ==
    \/ ParseLine
    \/ ParseAlteredPayload
    \/ ParseAlteredChecksum
    \/ SerializeState
    \/ SerializeUpdate
    \/ ParseWritten

-----------------------------------------------------------------------------
(* The callers of apply_update                                             *)

\* States whose seven fields all differ, and the neutral state
UpdStates ==
    { neutral,
      GamepadState(1, AnalogStick(2, 3), AnalogStick(4, 5), 6, 7),
      GamepadState(65535, AnalogStick(-32768, 32767), AnalogStick(-1, 1000), 255, 128) }

UpdUpdates ==
    { GamepadFieldUpdate("Buttons", v) : v \in {0, 1, 43981, 65535} } \cup
    { GamepadFieldUpdate(f, v) :
        f \in {"LeftStickX", "LeftStickY", "RightStickX", "RightStickY"},
        v \in {-32768, -1, 0, 2, 32767} } \cup
    { GamepadFieldUpdate(f, v) :
        f \in {"LeftTrigger", "RightTrigger"}, v \in {0, 6, 128, 255} }

UpdIdle ==
    /\ uStep = 0
    /\ uState = neutral
    /\ uUpdate = NoUpdate
    /\ uOnce = neutral
    /\ uTwice = neutral

UpdInit ==
    /\ uStep = 0
    /\ uState \in UpdStates
    /\ uUpdate = NoUpdate
    /\ uOnce = uState
    /\ uTwice = uState

\* state.apply_update(u)
ApplyUpdate ==
    /\ uStep = 0
    /\ \E u \in UpdUpdates :
        /\ uUpdate' = u
        /\ uOnce' = apply_update(uState, u)
        /\ uTwice' = apply_update(uState, u)
    /\ uStep' = 1
    /\ UNCHANGED uState
    /\ UNCHANGED <<bridgeVars, parserVars, crcVars, asciiVars, mapVars, uartVars, mavVars, cpVars, ciVars, sgVars>>

\* state.apply_update(u) again, with the same u
ApplyUpdateAgain ==
    /\ uStep = 1
    /\ uTwice' = apply_update(uOnce, uUpdate)
    /\ uStep' = 2
    /\ UNCHANGED <<uState, uUpdate, uOnce>>
    /\ UNCHANGED <<bridgeVars, parserVars, crcVars, asciiVars, mapVars, uartVars, mavVars, cpVars, ciVars, sgVars>>

UpdNext ==
    \/ ApplyUpdate
    \/ ApplyUpdateAgain

-----------------------------------------------------------------------------
(* Mappers: mavlink-proto/src/mapping.rs and crsf-proto/src/mapping.rs.    *)
(* A function with i16 arithmetic returns a record: v is the value         *)
(* returned, overflow says that an operation left the range of its type,   *)
(* own that such an operation is written in the function itself. A build   *)
(* with overflow checks panics there (panic), a build without them wraps.  *)

CRSF_CENTER == 992
CRSF_MAX == 1984

Val(v) == [overflow |-> FALSE, own |-> FALSE, panic |-> FALSE, v |-> v]

\* x as i16, keeping the low 16 bits
wrap_i16(x) == ((x + 32768) % 65536) - 32768

\* The result of an i16 operation whose exact value is x
checked_i16(x, checks) ==
    IF x \in -32768..32767 THEN Val(x)
    ELSE [overflow |-> TRUE, own |-> TRUE, panic |-> checks,
          v |-> IF checks THEN 0 ELSE wrap_i16(x)]

\* Ord::clamp
clamp(x, lo, hi) == IF x < lo THEN lo ELSE IF x > hi THEN hi ELSE x

\* a / b of Rust for b > 0: the quotient is truncated towards zero
div_trunc(a, b) == IF a >= 0 THEN a \div b ELSE 0 - ((0 - a) \div b)

\* mavlink_to_stick: scaled is computed in i32 and clamped, -scaled in i16
mavlink_to_stick(val, invert, checks) ==
    LET scaled == clamp(div_trunc(val * 32767, 1000), -32768, 32767)
    IN  IF invert THEN checked_i16(0 - scaled, checks) ELSE Val(scaled)

\* mavlink_z_to_trigger
mavlink_z_to_trigger(z) == (clamp(z, 0, 1000) * 255) \div 1000

RECURSIVE BitAnd(_, _)
BitAnd(a, b) ==
    IF a = 0 \/ b = 0 THEN 0
    ELSE ((a % 2) * (b % 2)) + 2 * BitAnd(a \div 2, b \div 2)

RECURSIVE BitOr(_, _)
BitOr(a, b) ==
    IF a = 0 THEN b
    ELSE IF b = 0 THEN a
    ELSE (IF (a % 2) + (b % 2) > 0 THEN 1 ELSE 0) + 2 * BitOr(a \div 2, b \div 2)

\* Buttons::A, B, X, Y, LB, RB, BACK, START, GUIDE, LS, RS, DPAD_UP,
\* DPAD_DOWN, DPAD_LEFT, DPAD_RIGHT, in the order mavlink_to_buttons tests
\* bits 0..14
ButtonFlags ==
    <<1, 2, 4, 8, 16, 32, 64, 128, 256, 512, 1024, 2048, 4096, 8192, 16384>>

\* The if statements of mavlink_to_buttons from bit i on
RECURSIVE buttons_from(_, _, _, _)
buttons_from(buttons, i, last, result) ==
    IF i > last THEN result
    ELSE buttons_from(buttons, i + 1, last,
                      IF BitAnd(buttons, Pow2(i)) # 0
                      THEN BitOr(result, IF i < 15 THEN ButtonFlags[i + 1] ELSE Pow2(i))
                      ELSE result)

\* Mutant: bit 15 is passed on as well.
mavlink_to_buttons_16_bits(buttons, buttons2) == buttons_from(buttons, 0, 15, 0)

\* mavlink_to_buttons: the raw u16 of the Buttons returned
mavlink_to_buttons(buttons, buttons2) == buttons_from(buttons, 0, 14, 0)

\* struct AxisMapping
AxisMapping(ix, iy, iz, ir, zt) ==
    [invert_x |-> ix, invert_y |-> iy, invert_z |-> iz, invert_r |-> ir,
     z_as_trigger |-> zt]

DEFAULT_AXIS_MAPPING == AxisMapping(FALSE, FALSE, FALSE, FALSE, TRUE)

\* manual_control_to_gamepad: -x and 1000 - z are computed in i16
manual_control_to_gamepad(x, y, z, r, buttons, buttons2, mapping, checks) ==
    LET right_x == mavlink_to_stick(y, mapping.invert_y, checks)
        neg_x == checked_i16(0 - x, checks)
        right_y == mavlink_to_stick(neg_x.v, mapping.invert_x, checks)
        left_x == mavlink_to_stick(r, mapping.invert_r, checks)
        z_in == IF mapping.invert_z THEN checked_i16(1000 - z, checks) ELSE Val(z)
        left_y == mavlink_to_stick(z, mapping.invert_z, checks)
        steps == IF mapping.z_as_trigger
                 THEN <<right_x, neg_x, right_y, left_x, z_in>>
                 ELSE <<right_x, neg_x, right_y, left_x, left_y>>
        panics == \E i \in 1..5 : steps[i].panic
    IN  [overflow |-> \E i \in 1..5 : steps[i].overflow,
         own |-> neg_x.overflow \/ (mapping.z_as_trigger /\ z_in.overflow),
         panic |-> panics,
         v |-> IF panics THEN neutral
               ELSE GamepadState(
                      mavlink_to_buttons(buttons, buttons2),
                      AnalogStick(left_x.v,
                                  IF mapping.z_as_trigger THEN 0 ELSE left_y.v),
                      AnalogStick(right_x.v, right_y.v),
                      IF mapping.z_as_trigger THEN mavlink_z_to_trigger(z_in.v) ELSE 0,
                      0)]

\* Mutant: the scaled value is cast to i16 without being clamped.
crsf_to_stick_unclamped(val, invert, checks) ==
    LET centered == val - CRSF_CENTER
        scaled == wrap_i16(div_trunc(centered * 32767, CRSF_CENTER))
    IN  IF invert THEN checked_i16(0 - scaled, checks) ELSE Val(scaled)

\* crsf_to_stick: centered and scaled are computed in i32, -scaled in i16
crsf_to_stick(val, invert, checks) ==
    LET centered == val - CRSF_CENTER
        scaled == clamp(div_trunc(centered * 32767, CRSF_CENTER), -32768, 32767)
    IN  IF invert THEN checked_i16(0 - scaled, checks) ELSE Val(scaled)

\* crsf_to_trigger: computed in u32
crsf_to_trigger(val) ==
    LET t == (val * 255) \div CRSF_MAX
    IN  IF t < 255 THEN t ELSE 255

-----------------------------------------------------------------------------
(* The mappers applied to chosen inputs                                    *)

\* How far around each limit the sampled inputs reach
MapMargin == 2

\* The distance between the sampled u16 inputs
CrsfStride == 257

\* The limits of the i16 inputs: of the type, of 1000 - z, of the MAVLink
\* axis range, and the points the tests name
I16Limits == {-32768, -31767, -1000, 0, 500, 1000, 32767}

I16Samples ==
    { b + d : b \in I16Limits, d \in (0 - MapMargin)..MapMargin }
        \cap (-32768..32767)

\* u16 inputs: around 0, CRSF_CENTER, CRSF_MAX and the largest u16, and
\* every CrsfStride-th value
U16Samples ==
    ({ b + d : b \in {0, CRSF_CENTER, CRSF_MAX, 65535},
               d \in (0 - MapMargin)..MapMargin }
     \cup { v \in 0..65535 : v % CrsfStride = 0 }) \cap (0..65535)

\* Button fields: none, all, each single bit, bit 15 with others
ButtonSamples == {0, 65535, 32767, 43981} \cup { Pow2(i) : i \in 0..15 }

AxisMappings ==
    { AxisMapping(ix, iy, iz, ir, zt) :
        ix \in BOOLEAN, iy \in BOOLEAN, iz \in BOOLEAN, ir \in BOOLEAN,
        zt \in BOOLEAN }

\* A call: the function and its arguments
MapCall(fn, val, invert, axes, buttons, mapping) ==
    [fn |-> fn, val |-> val, invert |-> invert, axes |-> axes,
     buttons |-> buttons, mapping |-> mapping]

NoAxes == [x |-> 0, y |-> 0, z |-> 0, r |-> 0]
NoButtons == [buttons |-> 0, buttons2 |-> 0]

NoMapCall == MapCall("-", 0, FALSE, NoAxes, NoButtons, DEFAULT_AXIS_MAPPING)

MapInputs ==
    { MapCall("mavlink_to_stick", v, i, NoAxes, NoButtons, DEFAULT_AXIS_MAPPING) :
        v \in I16Samples, i \in BOOLEAN }
    \cup
    { MapCall("mavlink_z_to_trigger", v, FALSE, NoAxes, NoButtons,
              DEFAULT_AXIS_MAPPING) : v \in I16Samples }
    \cup
    { MapCall("mavlink_to_buttons", 0, FALSE, NoAxes,
              [buttons |-> b, buttons2 |-> b2], DEFAULT_AXIS_MAPPING) :
        b \in ButtonSamples, b2 \in {0, 1, 32768, 65535} }
    \cup
    { MapCall("manual_control_to_gamepad", 0, FALSE,
              [x |-> x, y |-> y, z |-> z, r |-> r],
              [buttons |-> 43981, buttons2 |-> 7], m) :
        x \in {-32768, 0, 1000}, y \in {-1001, 1000},
        z \in {-32768, -31768, -31767, 0, 500, 1000, 32767},
        r \in {0, 32767}, m \in AxisMappings }
    \cup
    { MapCall("crsf_to_stick", v, i, NoAxes, NoButtons, DEFAULT_AXIS_MAPPING) :
        v \in U16Samples, i \in BOOLEAN }
    \cup
    { MapCall("crsf_to_trigger", v, FALSE, NoAxes, NoButtons,
              DEFAULT_AXIS_MAPPING) : v \in U16Samples }

\* Before any call
MapIdle ==
    /\ mIn = NoMapCall
    /\ mDone = FALSE
    /\ mChecks = FALSE
    /\ mOut = Val(0)

MapInit ==
    /\ mIn \in MapInputs
    /\ mDone = FALSE
    /\ mChecks = FALSE
    /\ mOut = Val(0)

\* A call of a function with i16 arithmetic, in a build with or without
\* overflow checks
MapApplyChecked(fn, out(_)) ==
    /\ mIn.fn = fn
    /\ ~mDone
    /\ mDone' = TRUE
    /\ \E checks \in BOOLEAN :
        /\ mChecks' = checks
        /\ mOut' = out(checks)
    /\ UNCHANGED mIn
    /\ UNCHANGED <<bridgeVars, parserVars, crcVars, asciiVars, updVars, uartVars, mavVars, cpVars, ciVars, sgVars>>

\* A call of a function whose arithmetic cannot overflow
MapApply(fn, out) ==
    /\ mIn.fn = fn
    /\ ~mDone
    /\ mDone' = TRUE
    /\ mOut' = Val(out)
    /\ UNCHANGED <<mIn, mChecks>>
    /\ UNCHANGED <<bridgeVars, parserVars, crcVars, asciiVars, updVars, uartVars, mavVars, cpVars, ciVars, sgVars>>

ApplyMavlinkToStick ==
    MapApplyChecked("mavlink_to_stick",
                    LAMBDA checks : mavlink_to_stick(mIn.val, mIn.invert, checks))

ApplyMavlinkZToTrigger ==
    MapApply("mavlink_z_to_trigger", mavlink_z_to_trigger(mIn.val))

ApplyMavlinkToButtons ==
    MapApply("mavlink_to_buttons",
             mavlink_to_buttons(mIn.buttons.buttons, mIn.buttons.buttons2))

ApplyManualControlToGamepad ==
    MapApplyChecked("manual_control_to_gamepad",
                    LAMBDA checks : manual_control_to_gamepad(
                        mIn.axes.x, mIn.axes.y, mIn.axes.z, mIn.axes.r,
                        mIn.buttons.buttons, mIn.buttons.buttons2,
                        mIn.mapping, checks))

ApplyCrsfToStick ==
    MapApplyChecked("crsf_to_stick",
                    LAMBDA checks : crsf_to_stick(mIn.val, mIn.invert, checks))

ApplyCrsfToTrigger ==
    MapApply("crsf_to_trigger", crsf_to_trigger(mIn.val))

MapNext ==
    \/ ApplyMavlinkToStick
    \/ ApplyMavlinkZToTrigger
    \/ ApplyMavlinkToButtons
    \/ ApplyManualControlToGamepad
    \/ ApplyCrsfToStick
    \/ ApplyCrsfToTrigger

-----------------------------------------------------------------------------
(* UartInputSource: firmware-rp2040/src/input/gamepad.rs (src/input/uart.rs *)
(* is the same code). What rx.read() delivers is a byte, or a negative      *)
(* number for a UartError.                                                  *)

MAX_LINE_LENGTH == 64

\* embassy_rp::uart::Error as rx.read() delivers it
UartError(item) ==
    CASE item = -1 -> "Framing"
      [] item = -2 -> "Overrun"
      [] item = -3 -> "Break"
      [] item = -4 -> "Parity"

\* uart_error_to_input_error
uart_error_to_input_error(e) ==
    CASE e = "Framing" -> "Framing"
      [] e = "Overrun" -> "BufferOverflow"
      [] OTHER -> "Io"

\* What read_line returns: Ok(()) or Err(e), self.buffer afterwards, and the
\* number of reads it made
LineOk(buffer, n) == [ok |-> TRUE, err |-> "-", buffer |-> buffer, n |-> n]
LineErr(e, buffer, n) == [ok |-> FALSE, err |-> e, buffer |-> buffer, n |-> n]

\* Mutant: the rest of the line is left in the UART.
discard_line_nothing(wire, i, buffer) == LineErr("BufferOverflow", buffer, i - 1)

\* read_line, the inner loop (87-95): the rest of the line is discarded
RECURSIVE discard_line(_, _, _)
discard_line(wire, i, buffer) ==
    IF i > Len(wire) THEN LineErr("Pending", buffer, i - 1)
    ELSE IF wire[i] < 0
    THEN LineErr(uart_error_to_input_error(UartError(wire[i])), buffer, i)
    ELSE IF wire[i] = 10 THEN LineErr("BufferOverflow", buffer, i)
    ELSE discard_line(wire, i + 1, buffer)

\* read_line, the outer loop (75-98) from the i-th read on: a newline ends
\* the line, any other byte is pushed, and a push onto the full buffer
\* starts the discarding
RECURSIVE read_line_from(_, _, _)
read_line_from(wire, i, buffer) ==
    CASE i > Len(wire) -> LineErr("Pending", buffer, i - 1)
      [] i <= Len(wire) /\ wire[i] < 0 ->
            LineErr(uart_error_to_input_error(UartError(wire[i])), buffer, i)
      [] i <= Len(wire) /\ wire[i] = 10 -> LineOk(buffer, i)
      [] i <= Len(wire) /\ wire[i] \notin {10} /\ wire[i] >= 0
         /\ Len(buffer) >= MAX_LINE_LENGTH -> discard_line(wire, i + 1, buffer)
      [] OTHER -> read_line_from(wire, i + 1, Append(buffer, wire[i]))

\* read_line: the buffer is cleared first
read_line(wire) == read_line_from(wire, 1, <<>>)

\* What receive returns, and self.state and self.buffer afterwards
Received(result, state, buffer, n) ==
    [ret |-> result, state |-> state, buffer |-> buffer, n |-> n]

\* Mutant: a full-state message is returned but not retained.
UartInputSource_receive_not_retained(state, line, msg) ==
    IF ~line.ok THEN Received(RecvErr(line.err), state, line.buffer, line.n)
    ELSE IF ~msg.ok THEN Received(RecvErr(msg.err), state, line.buffer, line.n)
    ELSE IF msg.v.kind = "FullState"
    THEN Received(RecvOk(msg.v.state), state, line.buffer, line.n)
    ELSE Only({ Received(RecvOk(st), st, line.buffer, line.n)
              : st \in {apply_update(state, msg.v.update)} })

\* UartInputSource::receive on self.state = state, where self.read_line()
\* returns line and parse_message(&self.buffer) returns msg
UartInputSource_receive(state, line, msg) ==
    IF ~line.ok THEN Received(RecvErr(line.err), state, line.buffer, line.n)
    ELSE IF ~msg.ok THEN Received(RecvErr(msg.err), state, line.buffer, line.n)
    ELSE IF msg.v.kind = "FullState"
    THEN Received(RecvOk(msg.v.state), msg.v.state, line.buffer, line.n)
    ELSE Only({ Received(RecvOk(st), st, line.buffer, line.n)
              : st \in {apply_update(state, msg.v.update)} })

-----------------------------------------------------------------------------
(* The lines the UART delivers to UartInputSource                          *)

\* receive() calls in one run
MaxLines == 3

\* "GABCD:<sp spaces>0:0:0:0:0:0*hh" and its line ending
PaddedLine(sp, ending) ==
    Render(Msg(<<71>>, [BaseParts EXCEPT ![2] = Part(sp, "", <<0>>, <<>>)],
               "good", ending))

\* Two lines a sender can send that are valid messages
ValidLines ==
    { Render(Msg(<<71>>, BaseParts, "good", <<10>>)),
      Render(Msg(<<85>>, <<Raw(<<82, 84>>), Num(5)>>, "good", <<10>>)) }

\* Full-state and update lines with right and wrong checksums, lines of
\* MAX_LINE_LENGTH - 1 to MAX_LINE_LENGTH + 2 bytes before the newline, an
\* empty line, lines a UartError ends, and padded lines with a valid line
\* right after them
UartLines ==
    { Render(Msg(<<71>>, BaseParts, ck, e)) :
        ck \in {"good", "bad"}, e \in {<<10>>, <<13, 10>>} }
    \cup
    { Render(Msg(<<85>>, <<id, Num(5)>>, ck, <<10>>)) :
        id \in {Raw(<<76, 84>>), Raw(<<76, 88>>)}, ck \in {"good", "bad"} }
    \cup
    { PaddedLine(MAX_LINE_LENGTH - 20 + d, e) :
        d \in -1..2, e \in {<<10>>, <<13, 10>>} }
    \cup
    { <<10>>, <<71, 65, -1>>, <<-2>>, <<-3>>, <<85, 76, -4>> }
    \cup
    { PaddedLine(MAX_LINE_LENGTH - 20 + d, <<10>>) \o next :
        d \in {1, 2, 3}, next \in ValidLines }

\* What a receive() on the bytes w leaves in the UART
RestOf(w) == SubSeq(w, read_line(w).n + 1, Len(w))

\* What the UART can hold when receive() is called
UartStreams == UartLines \cup ({ RestOf(w) : w \in UartLines } \ {<<>>})

\* read_line on each of UartStreams, and parse_message on the buffer it
\* leaves, computed once
ReadLineOf == [w \in UartStreams |-> read_line(w)]
ParsedOf == [w \in UartStreams |-> gamepad_parse_message(ReadLineOf[w].buffer)]

UartIdle ==
    /\ usState = neutral
    /\ usBuffer = <<>>
    /\ usLine = <<>>
    /\ usRet = RecvOk(neutral)
    /\ usPrev = neutral
    /\ usPrevRet = RecvOk(neutral)
    /\ usN = 0
    /\ usWire = <<>>
    /\ usStream = <<>>
    /\ usMsgs = <<>>

\* input.receive() is called and returns. It reads what the UART still
\* holds; when that is nothing, the sender sends more.
Receive ==
    /\ usN < MaxLines
    /\ \E wire \in (IF usStream = <<>> THEN UartLines ELSE {usStream}) :
       \E out \in {UartInputSource_receive(usState, ReadLineOf[wire],
                                            ParsedOf[wire])} :
        /\ usLine' = SubSeq(wire, 1, out.n)
        /\ usStream' = SubSeq(wire, out.n + 1, Len(wire))
        /\ usWire' = (IF usStream = <<>> THEN wire ELSE usWire)
        /\ usMsgs' = (IF out.ret.ok THEN Append(usMsgs, ParsedOf[wire].v)
                                    ELSE usMsgs)
        /\ usRet' = out.ret
        /\ usState' = out.state
        /\ usBuffer' = out.buffer
    /\ usPrev' = usState
    /\ usPrevRet' = usRet
    /\ usN' = usN + 1
    /\ UNCHANGED <<bridgeVars, parserVars, crcVars, asciiVars, updVars, mapVars, mavVars, cpVars, ciVars, sgVars>>

UartNext == Receive

-----------------------------------------------------------------------------
(* MavlinkInputSource: firmware-rp2040/src/input/mavlink.rs. Time is       *)
(* counted in seconds.                                                     *)

CONNECTION_TIMEOUT == 5

\* Option<Instant>::None
NoInstant == -1

\* MavlinkInputSource::is_connected, with Instant::now() = now
is_connected(last_message, now) ==
    IF last_message # NoInstant
    THEN now - last_message < CONNECTION_TIMEOUT
    ELSE FALSE

\* Mutant: the target filter is not applied.
is_for_us_always(target_system, msg) == TRUE

\* The filter of read_next_manual_control (91): target_system = 0 accepts a
\* message for any target
is_for_us(target_system, msg) ==
    target_system = 0 \/ msg.target = target_system

\* receive() has not returned
RecvPending == [ok |-> FALSE, state |-> neutral, err |-> "-"]

\* receive() panicked
RecvPanic == [ok |-> FALSE, state |-> neutral, err |-> "panic"]

\* The push_byte result at which last_message was set, and the frame whose
\* last byte was pushed
SetBy(res, frame) == [res |-> res, frame |-> frame]

\* Frames delivered in one run, and the latest time
MaxMavFrames == 2
MaxNow == 6

\* Frames of the byte stream: heartbeat and manual-control with right and
\* wrong CRC, another message id with a wrong CRC, a byte that starts no
\* frame
MavFrames ==
    { Frame(1, 9, 0, 1, "good", 0), Frame(1, 9, 0, 1, "badlo", 0),
      Frame(1, 11, 69, 250, "good", 0), Frame(1, 11, 69, 250, "badlo", 0),
      Frame(1, 3, 30, 7, "badlo", 0), Junk(0) }

\* with_mapping
MavIdle ==
    /\ miParser = new
    /\ miState = neutral
    /\ miTarget = 0
    /\ miLast = NoInstant
    /\ miNow = 0
    /\ miStream = <<>>
    /\ miFrame = NoFrame
    /\ miRes = ResNone
    /\ miSetBy = SetBy(ResNone, NoFrame)
    /\ miRet = RecvPending
    /\ miN = 0

\* with_mapping, then set_target_system or not, then receive()
MavInit ==
    /\ miParser = new
    /\ miState = neutral
    /\ miTarget \in {0, 4, 250}
    /\ miLast = NoInstant
    /\ miNow = 0
    /\ miStream = <<>>
    /\ miFrame = NoFrame
    /\ miRes = ResNone
    /\ miSetBy = SetBy(ResNone, NoFrame)
    /\ miRet = RecvPending
    /\ miN = 0

\* The sender starts its next frame.
MavFeed ==
    /\ miStream = <<>>
    /\ miN < MaxMavFrames
    /\ \E d \in MavFrames :
        /\ miFrame' = d
        /\ miStream' = FrameBytesOf[d]
    /\ miN' = miN + 1
    /\ UNCHANGED <<miParser, miState, miTarget, miLast, miNow, miRes, miSetBy, miRet>>
    /\ UNCHANGED <<bridgeVars, parserVars, crcVars, asciiVars, updVars, mapVars, uartVars, cpVars, ciVars, sgVars>>

\* A second passes.
MavTick ==
    /\ miStream = <<>>
    /\ miNow < MaxNow
    /\ miNow' = miNow + 1
    /\ UNCHANGED <<miParser, miState, miTarget, miLast, miStream, miFrame, miRes,
                   miSetBy, miRet, miN>>
    /\ UNCHANGED <<bridgeVars, parserVars, crcVars, asciiVars, updVars, mapVars, uartVars, cpVars, ciVars, sgVars>>

\* rx.read() fails: read_next_manual_control returns Err(Io).
MavReadError ==
    /\ miRet = RecvPending
    /\ miStream = <<>>
    /\ miN < MaxMavFrames
    /\ miRet' = RecvErr("Io")
    /\ miN' = miN + 1
    /\ UNCHANGED <<miParser, miState, miTarget, miLast, miNow, miStream, miFrame,
                   miRes, miSetBy>>
    /\ UNCHANGED <<bridgeVars, parserVars, crcVars, asciiVars, updVars, mapVars, uartVars, cpVars, ciVars, sgVars>>

\* receive() is called again.
MavReceive ==
    /\ miRet \notin {RecvPending, RecvPanic}
    /\ miRet' = RecvPending
    /\ UNCHANGED <<miParser, miState, miTarget, miLast, miNow, miStream, miFrame,
                   miRes, miSetBy, miN>>
    /\ UNCHANGED <<bridgeVars, parserVars, crcVars, asciiVars, updVars, mapVars, uartVars, cpVars, ciVars, sgVars>>

\* One turn of the loop of read_next_manual_control (76-120): a byte is
\* read and pushed, and the result of push_byte is handled.
MavReadByte ==
    /\ miRet = RecvPending
    /\ miStream # <<>>
    /\ \E out \in {push_byte(miParser, Head(miStream))} :
        /\ miParser' = out.p
        /\ miRes' = out.res
        /\ IF out.res.tag \in {"ManualControl", "Heartbeat", "Unknown"}
           THEN /\ miLast' = miNow
                /\ miSetBy' = SetBy(out.res, miFrame)
           ELSE UNCHANGED <<miLast, miSetBy>>
        /\ IF /\ out.res.tag = "ManualControl"
              /\ is_for_us(miTarget, out.res.msg)
           THEN \E checks \in BOOLEAN :
                \E st \in {manual_control_to_gamepad(
                              out.res.msg.x, out.res.msg.y, out.res.msg.z,
                              out.res.msg.r, out.res.msg.buttons,
                              out.res.msg.buttons2, DEFAULT_AXIS_MAPPING, checks)} :
                    IF st.panic
                    THEN /\ miRet' = RecvPanic
                         /\ UNCHANGED miState
                    ELSE /\ miState' = st.v
                         /\ miRet' = RecvOk(st.v)
           ELSE UNCHANGED <<miState, miRet>>
    /\ miStream' = Tail(miStream)
    /\ UNCHANGED <<miTarget, miNow, miFrame, miN>>
    /\ UNCHANGED <<bridgeVars, parserVars, crcVars, asciiVars, updVars, mapVars, uartVars, cpVars, ciVars, sgVars>>

MavNext ==
    \/ MavFeed
    \/ MavTick
    \/ MavReadError
    \/ MavReceive
    \/ MavReadByte

-----------------------------------------------------------------------------
(* CRSF telemetry and channel mapping: crsf-proto/src/telemetry.rs and     *)
(* crsf-proto/src/mapping.rs. encode_telemetry is modelled up to the       *)
(* packet it hands to the encoder of uf_crsf.                              *)

\* enum TelemetryData
Battery(voltage_mv, current_ma, remaining_pct) ==
    [kind |-> "Battery", voltage_mv |-> voltage_mv, current_ma |-> current_ma,
     remaining_pct |-> remaining_pct]
Gps(lat, lon, alt_m, speed_mps, sats) ==
    [kind |-> "Gps", lat |-> lat, lon |-> lon, alt_m |-> alt_m,
     speed_mps |-> speed_mps, sats |-> sats]
Attitude(roll, pitch, yaw) ==
    [kind |-> "Attitude", roll |-> roll, pitch |-> pitch, yaw |-> yaw]
LinkQuality(rssi, snr, lq) ==
    [kind |-> "LinkQuality", rssi |-> rssi, snr |-> snr, lq |-> lq]

\* x as u16, keeping the low 16 bits
wrap_u16(x) == x % 65536

\* The result of a u16 operation whose exact value is x
checked_u16(x, checks) ==
    IF x \in 0..65535 THEN Val(x)
    ELSE [overflow |-> TRUE, own |-> TRUE, panic |-> checks,
          v |-> IF checks THEN 0 ELSE wrap_u16(x)]

\* u16::saturating_add
saturating_add(a, b) == IF a + b > 65535 THEN 65535 ELSE a + b

\* Err(TelemetryError::NotSupported): no packet is built
NotSupported == [kind |-> "NotSupported"]

\* The call panicked before a packet was built
NoPacket == [kind |-> "-"]

\* The Attitude arm's conversion (62-64): computed in i32, cast to i16
centidegrees_to_rad(v) == wrap_i16(div_trunc(v * 1745, 1000))

\* encode_telemetry up to the packet handed to write_packet_to_buffer:
\* (*speed_mps as u16) * 360 is computed in u16
encode_telemetry(data, checks) ==
    CASE data.kind = "Battery" ->
            Val([kind |-> "Battery",
                 voltage |-> wrap_i16(data.voltage_mv \div 10),
                 current |-> wrap_i16(data.current_ma \div 10),
                 capacity |-> 0,
                 remaining |-> data.remaining_pct])
      [] data.kind = "Gps" ->
            LET groundspeed == checked_u16(data.speed_mps * 360, checks)
                altitude == saturating_add(wrap_u16(data.alt_m), 1000)
            IN  [groundspeed EXCEPT
                   !.v = IF groundspeed.panic THEN NoPacket
                         ELSE [kind |-> "Gps", lat |-> data.lat, lon |-> data.lon,
                               groundspeed |-> groundspeed.v, heading |-> 0,
                               altitude |-> altitude, sats |-> data.sats]]
      [] data.kind = "Attitude" ->
            Val([kind |-> "Attitude",
                 roll |-> centidegrees_to_rad(data.roll),
                 pitch |-> centidegrees_to_rad(data.pitch),
                 yaw |-> centidegrees_to_rad(data.yaw)])
      [] data.kind = "LinkQuality" -> Val(NotSupported)

\* struct ChannelMapping
ChannelMapping(rsx, rsy, lsx, lsy, lt, rt, button_channels, irx, iry, ilx, ily) ==
    [right_stick_x |-> rsx, right_stick_y |-> rsy, left_stick_x |-> lsx,
     left_stick_y |-> lsy, left_trigger |-> lt, right_trigger |-> rt,
     button_channels |-> button_channels,
     invert_right_x |-> irx, invert_right_y |-> iry,
     invert_left_x |-> ilx, invert_left_y |-> ily]

DEFAULT_MAPPING ==
    ChannelMapping(0, 1, 3, 2, 2, 4, <<5, 6, 7, 8, 9, 10, 11, 12>>,
                   FALSE, FALSE, FALSE, FALSE)

BUTTON_THRESHOLD == CRSF_CENTER

\* Mutant: the threshold itself counts as pressed.
crsf_to_button_from_threshold(val) == val >= BUTTON_THRESHOLD

\* crsf_to_button
crsf_to_button(val) == val > BUTTON_THRESHOLD

\* channels[i] of the [u16; 16]
Channel(channels, i) == channels[i + 1]

\* The loop over mapping.button_channels (126-132) from the i-th on;
\* button_flags[i] is Buttons::A .. Buttons::START
RECURSIVE crsf_buttons_from(_, _, _, _)
crsf_buttons_from(channels, button_channels, i, buttons) ==
    IF i >= 8 THEN buttons
    ELSE crsf_buttons_from(channels, button_channels, i + 1,
            IF /\ button_channels[i + 1] < 16
               /\ crsf_to_button(Channel(channels, button_channels[i + 1]))
            THEN BitOr(buttons, ButtonFlags[i + 1])
            ELSE buttons)

\* channels_to_gamepad: an axis index outside the array panics in every
\* build
channels_to_gamepad(channels, mapping, checks) ==
    LET axes == <<mapping.left_stick_x, mapping.left_stick_y,
                  mapping.right_stick_x, mapping.right_stick_y,
                  mapping.left_trigger, mapping.right_trigger>>
    IN  IF \E k \in 1..6 : axes[k] >= 16
        THEN [overflow |-> FALSE, own |-> FALSE, panic |-> TRUE, v |-> neutral]
        ELSE
        LET lx == crsf_to_stick(Channel(channels, mapping.left_stick_x),
                                mapping.invert_left_x, checks)
            ly == crsf_to_stick(Channel(channels, mapping.left_stick_y),
                                mapping.invert_left_y, checks)
            rsx == crsf_to_stick(Channel(channels, mapping.right_stick_x),
                                 mapping.invert_right_x, checks)
            rsy == crsf_to_stick(Channel(channels, mapping.right_stick_y),
                                 mapping.invert_right_y, checks)
            steps == <<lx, ly, rsx, rsy>>
            panics == \E k \in 1..4 : steps[k].panic
        IN  [overflow |-> \E k \in 1..4 : steps[k].overflow,
             own |-> FALSE,
             panic |-> panics,
             v |-> IF panics THEN neutral
                   ELSE GamepadState(
                          crsf_buttons_from(channels, mapping.button_channels, 0, 0),
                          AnalogStick(lx.v, ly.v),
                          AnalogStick(rsx.v, rsy.v),
                          crsf_to_trigger(Channel(channels, mapping.left_trigger)),
                          crsf_to_trigger(Channel(channels, mapping.right_trigger)))]

-----------------------------------------------------------------------------
(* encode_telemetry and channels_to_gamepad applied to chosen inputs       *)

\* How far around each limit the sampled telemetry values reach
TelMargin == 2

\* The limits of speed_mps: of u8, and of speed_mps * 360 in u16
SpeedSamples ==
    { b + d : b \in {0, 182, 255}, d \in (0 - TelMargin)..TelMargin }
        \cap (0..255)

\* The limits of alt_m: of i16, of the offset, and sea level
AltSamples ==
    { b + d : b \in {-32768, -1000, 0, 32767}, d \in (0 - TelMargin)..TelMargin }
        \cap (-32768..32767)

\* The limits of an angle: of i16, of the scaled value in i16, and level
AngleSamples ==
    { b + d : b \in {-32768, -18778, 0, 18778, 32767},
              d \in (0 - TelMargin)..TelMargin }
        \cap (-32768..32767)

\* Channel arrays: every channel at one value around the threshold, and
\* channels alternating around it
ChannelSamples ==
    { [i \in 1..16 |-> v] : v \in {0, 172, 991, 992, 993, 1811, 65535} }
    \cup { [i \in 1..16 |-> 991 + ((i + k) % 3)] : k \in 0..2 }

\* button_channels: the default, indices outside the array, and one
\* channel for several buttons
ButtonChannelSamples ==
    { <<5, 6, 7, 8, 9, 10, 11, 12>>, <<16, 17, 5, 5, 1, 0, 100, 65535>>,
      <<15, 14, 13, 12, 11, 10, 9, 8>>, <<16, 16, 16, 16, 16, 16, 16, 16>> }

MappingSamples ==
    { [DEFAULT_MAPPING EXCEPT !.button_channels = bc, !.invert_left_x = inv,
                               !.invert_right_y = inv] :
        bc \in ButtonChannelSamples, inv \in BOOLEAN }
    \cup { [DEFAULT_MAPPING EXCEPT !.right_trigger = 16] }

\* A call: the function and its arguments
TelemetryCall(data) == [fn |-> "encode_telemetry", data |-> data]
ChannelsCall(channels, mapping) ==
    [fn |-> "channels_to_gamepad", channels |-> channels, mapping |-> mapping]
NoCpCall == [fn |-> "-"]

CpInputs ==
    { TelemetryCall(Gps(473977000, 85455000, a, s, 7)) :
        a \in AltSamples, s \in SpeedSamples }
    \cup
    { TelemetryCall(Attitude(v, 0, v)) : v \in AngleSamples }
    \cup
    { TelemetryCall(Attitude(0, v, 18777)) : v \in AngleSamples }
    \cup
    { TelemetryCall(Battery(mv, 1500, 80)) : mv \in {0, 11100, 65535} }
    \cup
    { TelemetryCall(LinkQuality(-70, 5, 99)) }
    \cup
    { ChannelsCall(c, m) : c \in ChannelSamples, m \in MappingSamples }

\* Before any call
CpIdle ==
    /\ cpIn = NoCpCall
    /\ cpDone = FALSE
    /\ cpChecks = FALSE
    /\ cpOut = Val(0)

CpInit ==
    /\ cpIn \in CpInputs
    /\ cpDone = FALSE
    /\ cpChecks = FALSE
    /\ cpOut = Val(0)

\* encode_telemetry(&data, &mut buf) is called, in a build with or without
\* overflow checks.
ApplyEncodeTelemetry ==
    /\ cpIn.fn = "encode_telemetry"
    /\ ~cpDone
    /\ cpDone' = TRUE
    /\ \E checks \in BOOLEAN :
        /\ cpChecks' = checks
        /\ cpOut' = encode_telemetry(cpIn.data, checks)
    /\ UNCHANGED cpIn
    /\ UNCHANGED <<bridgeVars, parserVars, crcVars, asciiVars, updVars, mapVars, uartVars, mavVars, ciVars, sgVars>>

\* channels_to_gamepad(&channels, &mapping) is called, in a build with or
\* without overflow checks.
ApplyChannelsToGamepad ==
    /\ cpIn.fn = "channels_to_gamepad"
    /\ ~cpDone
    /\ cpDone' = TRUE
    /\ \E checks \in BOOLEAN :
        /\ cpChecks' = checks
        /\ cpOut' = channels_to_gamepad(cpIn.channels, cpIn.mapping, checks)
    /\ UNCHANGED cpIn
    /\ UNCHANGED <<bridgeVars, parserVars, crcVars, asciiVars, updVars, mapVars, uartVars, mavVars, ciVars, sgVars>>

CpNext ==
    \/ ApplyEncodeTelemetry
    \/ ApplyChannelsToGamepad

-----------------------------------------------------------------------------
(* CrsfInputSource: firmware-rp2040/src/input/crsf.rs. The frame parser is *)
(* uf_crsf's CrsfParser; what its push_byte returns for a byte is chosen   *)
(* by the byte stream.                                                     *)

\* Reads in one run, and the longest silence
MaxCrsfReads == 3
MaxQuiet == 2

\* CrsfInputSource::is_connected
CrsfInputSource_is_connected(connected) == connected

\* What CrsfParser::push_byte can return: Ok(Some(Packet::RCChannels(rc))),
\* Ok(Some(packet)) of another type, Ok(None), Err(_)
RcChannels(channels) == [tag |-> "RCChannels", channels |-> channels]
CrsfPushResults ==
    { RcChannels(c) : c \in ChannelSamples }
    \cup { [tag |-> "LinkStatistics"], [tag |-> "None"], [tag |-> "Err"] }

\* with_mapping
CiIdle ==
    /\ ciConnected = FALSE
    /\ ciState = neutral
    /\ ciRet = RecvPending
    /\ ciEver = FALSE
    /\ ciQuiet = 0
    /\ ciN = 0

\* with_mapping, then receive()
CiInit == CiIdle

\* One turn of the loop of read_next_rc_packet (55-82): a byte is read and
\* pushed; an RC-channels packet ends the loop, and receive (87-95)
\* converts it and returns.
CrsfReadByte ==
    /\ ciRet = RecvPending
    /\ ciN < MaxCrsfReads
    /\ \E res \in CrsfPushResults :
        IF res.tag = "RCChannels"
        THEN /\ ciConnected' = TRUE
             /\ ciEver' = TRUE
             /\ \E checks \in BOOLEAN :
                \E st \in {channels_to_gamepad(res.channels, DEFAULT_MAPPING, checks)} :
                    IF st.panic
                    THEN /\ ciRet' = RecvPanic
                         /\ UNCHANGED ciState
                    ELSE /\ ciState' = st.v
                         /\ ciRet' = RecvOk(st.v)
        ELSE UNCHANGED <<ciConnected, ciEver, ciState, ciRet>>
    /\ ciQuiet' = 0
    /\ ciN' = ciN + 1
    /\ UNCHANGED <<bridgeVars, parserVars, crcVars, asciiVars, updVars, mapVars, uartVars, mavVars, cpVars, sgVars>>

\* rx.read() fails: read_next_rc_packet returns Err(Io), and so does
\* receive.
CrsfReadError ==
    /\ ciRet = RecvPending
    /\ ciN < MaxCrsfReads
    /\ ciRet' = RecvErr("Io")
    /\ ciN' = ciN + 1
    /\ UNCHANGED <<ciConnected, ciState, ciEver, ciQuiet>>
    /\ UNCHANGED <<bridgeVars, parserVars, crcVars, asciiVars, updVars, mapVars, uartVars, mavVars, cpVars, sgVars>>

\* A second passes in which no byte arrives.
CrsfQuiet ==
    /\ ciQuiet < MaxQuiet
    /\ ciQuiet' = ciQuiet + 1
    /\ UNCHANGED <<ciConnected, ciState, ciRet, ciEver, ciN>>
    /\ UNCHANGED <<bridgeVars, parserVars, crcVars, asciiVars, updVars, mapVars, uartVars, mavVars, cpVars, sgVars>>

\* receive() is called again.
CrsfReceive ==
    /\ ciRet \notin {RecvPending, RecvPanic}
    /\ ciRet' = RecvPending
    /\ UNCHANGED <<ciConnected, ciState, ciEver, ciQuiet, ciN>>
    /\ UNCHANGED <<bridgeVars, parserVars, crcVars, asciiVars, updVars, mapVars, uartVars, mavVars, cpVars, sgVars>>

CiNext ==
    \/ CrsfReadByte
    \/ CrsfReadError
    \/ CrsfQuiet
    \/ CrsfReceive

-----------------------------------------------------------------------------
(* input_task and output_task of firmware/src/bin/main.rs, and the         *)
(* STATE_SIGNAL between them. The tasks run on one executor: each step     *)
(* between two awaits is atomic. A signalled value carries its position    *)
(* in the sequence of signals.                                             *)

\* Signals in one run
MaxSignals == 3

\* Signal holding nothing, and holding the idx-th signalled state
NoSignal == [some |-> FALSE, idx |-> 0, state |-> neutral]
Signalled(idx, state) == [some |-> TRUE, idx |-> idx, state |-> state]

\* Signal::signal: the value replaces what the signal held
Signal_signal(slot, value) == value

\* Mutant: the value stays in the signal when it is taken.
Signal_wait_keeps(slot) == [value |-> slot, slot |-> slot]

\* Signal::wait, once the signal holds a value: the value is taken out
Signal_wait(slot) == [value |-> slot, slot |-> NoSignal]

\* input_task, the match on input.receive().await (129-141): the state
\* signalled
input_task_signals(received) ==
    IF received.ok THEN received.state ELSE neutral

\* Mutant: output_task returns when a send fails.
output_task_leaves_on_error(result) ==
    IF result = "Ok" THEN "waiting" ELSE "returned"

\* output_task after output.send(&state).await (158-160): an error is
\* logged and the loop goes on
output_task_after_send(result) == "waiting"

\* What input.receive() returns to input_task
SignalReceives ==
    { RecvOk(GamepadState(1, AnalogStick(0, 0), AnalogStick(0, 0), 0, 0)),
      RecvOk(GamepadState(0, AnalogStick(100, 0), AnalogStick(0, 0), 0, 255)),
      RecvErr("Io") }

\* Before the tasks are spawned
SgIdle ==
    /\ sgSlot = NoSignal
    /\ sgSignalled = <<>>
    /\ sgLost = {}
    /\ sgSent = <<>>
    /\ sgResults = <<>>
    /\ sgPc = "wait_ready"

\* The tasks are spawned: output_task awaits wait_ready
SgInit == SgIdle

\* input.receive() returns and input_task signals.
InputSignals ==
    /\ Len(sgSignalled) < MaxSignals
    /\ \E received \in SignalReceives :
       \E state \in {input_task_signals(received)} :
        /\ sgSignalled' = Append(sgSignalled, state)
        /\ sgSlot' = Signal_signal(sgSlot, Signalled(Len(sgSignalled) + 1, state))
    /\ sgLost' = (IF sgSlot.some THEN sgLost \cup {sgSlot.idx} ELSE sgLost)
    /\ UNCHANGED <<sgSent, sgResults, sgPc>>
    /\ UNCHANGED <<bridgeVars, parserVars, crcVars, asciiVars, updVars, mapVars, uartVars, mavVars, cpVars, ciVars>>

\* output.wait_ready() returns.
OutputReady ==
    /\ sgPc = "wait_ready"
    /\ sgPc' = "waiting"
    /\ UNCHANGED <<sgSlot, sgSignalled, sgLost, sgSent, sgResults>>
    /\ UNCHANGED <<bridgeVars, parserVars, crcVars, asciiVars, updVars, mapVars, uartVars, mavVars, cpVars, ciVars>>

\* signal.wait() returns a state and output_task passes it to send.
OutputTakes ==
    /\ sgPc = "waiting"
    /\ sgSlot.some
    /\ \E w \in {Signal_wait(sgSlot)} :
        /\ sgSlot' = w.slot
        /\ sgSent' = Append(sgSent, w.value)
    /\ sgPc' = "sending"
    /\ UNCHANGED <<sgSignalled, sgLost, sgResults>>
    /\ UNCHANGED <<bridgeVars, parserVars, crcVars, asciiVars, updVars, mapVars, uartVars, mavVars, cpVars, ciVars>>

\* output.send() returns Ok(()) or Err(Io).
OutputSendReturns ==
    /\ sgPc = "sending"
    /\ \E result \in {"Ok", "Io"} :
        /\ sgResults' = Append(sgResults, result)
        /\ sgPc' = output_task_after_send(result)
    /\ UNCHANGED <<sgSlot, sgSignalled, sgLost, sgSent>>
    /\ UNCHANGED <<bridgeVars, parserVars, crcVars, asciiVars, updVars, mapVars, uartVars, mavVars, cpVars, ciVars>>

SgNext ==
    \/ InputSignals
    \/ OutputReady
    \/ OutputTakes
    \/ OutputSendReturns

-----------------------------------------------------------------------------
(* Specifications                                                          *)

InitBridge == BridgeInit /\ ParserInit /\ CrcIdle /\ AsciiInit /\ UpdIdle /\ MapIdle /\ UartIdle /\ MavIdle /\ CpIdle /\ CiIdle /\ SgIdle
SpecBridge == InitBridge /\ [][BridgeNext]_vars

InitParser == BridgeInit /\ ParserInit /\ CrcIdle /\ AsciiInit /\ UpdIdle /\ MapIdle /\ UartIdle /\ MavIdle /\ CpIdle /\ CiIdle /\ SgIdle
SpecParser == InitParser /\ [][ParserNext]_vars

InitCrc == BridgeInit /\ ParserInit /\ CrcInit /\ AsciiInit /\ UpdIdle /\ MapIdle /\ UartIdle /\ MavIdle /\ CpIdle /\ CiIdle /\ SgIdle
SpecCrc == InitCrc /\ [][CrcNext]_vars

InitAscii == BridgeInit /\ ParserInit /\ CrcIdle /\ AsciiInit /\ UpdIdle /\ MapIdle /\ UartIdle /\ MavIdle /\ CpIdle /\ CiIdle /\ SgIdle
SpecAscii == InitAscii /\ [][AsciiNext]_vars

InitUpdate == BridgeInit /\ ParserInit /\ CrcIdle /\ AsciiInit /\ UpdInit /\ MapIdle /\ UartIdle /\ MavIdle /\ CpIdle /\ CiIdle /\ SgIdle
SpecUpdate == InitUpdate /\ [][UpdNext]_vars

InitMap == BridgeInit /\ ParserInit /\ CrcIdle /\ AsciiInit /\ UpdIdle /\ MapInit /\ UartIdle /\ MavIdle /\ CpIdle /\ CiIdle /\ SgIdle
SpecMap == InitMap /\ [][MapNext]_vars

InitUart == BridgeInit /\ ParserInit /\ CrcIdle /\ AsciiInit /\ UpdIdle /\ MapIdle /\ UartIdle /\ MavIdle /\ CpIdle /\ CiIdle /\ SgIdle
SpecUart == InitUart /\ [][UartNext]_vars

InitCrsfProto == BridgeInit /\ ParserInit /\ CrcIdle /\ AsciiInit /\ UpdIdle /\ MapIdle /\ UartIdle /\ MavIdle /\ CpInit /\ CiIdle /\ SgIdle
SpecCrsfProto == InitCrsfProto /\ [][CpNext]_vars

InitCrsfIn == BridgeInit /\ ParserInit /\ CrcIdle /\ AsciiInit /\ UpdIdle /\ MapIdle /\ UartIdle /\ MavIdle /\ CpIdle /\ CiInit /\ SgIdle
SpecCrsfIn == InitCrsfIn /\ [][CiNext]_vars

InitSignal == BridgeInit /\ ParserInit /\ CrcIdle /\ AsciiInit /\ UpdIdle /\ MapIdle /\ UartIdle /\ MavIdle /\ CpIdle /\ CiIdle /\ SgInit
SpecSignal == InitSignal /\ [][SgNext]_vars

\* The tasks under an executor that polls output_task whenever it can go
\* on, with a USB host that lets wait_ready and every send return
SpecSignalLive ==
    /\ InitSignal
    /\ [][SgNext]_vars
    /\ WF_vars(OutputReady)
    /\ WF_vars(OutputTakes)
    /\ WF_vars(OutputSendReturns)

InitMavIn == BridgeInit /\ ParserInit /\ CrcIdle /\ AsciiInit /\ UpdIdle /\ MapIdle /\ UartIdle /\ MavInit /\ CpIdle /\ CiIdle /\ SgIdle
SpecMavIn == InitMavIn /\ [][MavNext]_vars

\* run() under a scheduler that lets every receive and every send complete
SpecBridgeLive ==
    /\ InitBridge
    /\ [][BridgeNext]_vars
    /\ WF_vars(ProcessOneStart)
    /\ WF_vars(ReceiveComplete)
    /\ WF_vars(SendComplete)

-----------------------------------------------------------------------------
(* Properties of GamepadBridge (checked under SpecBridge)                  *)

\* C1: when receive() fails with e, process_one sends neutral() exactly once
\* and returns Err(Input(e)) with the original e, whatever the error kind
\* and whether that send succeeds or fails.
C1_InputFailureSendsNeutral ==
    (bpc = "returned" /\ ~rx.ok) =>
        /\ sent = <<neutral>>
        /\ ret = BridgeInput(rx.err)

\* A failed receive whose neutral send the sink rejected as well.
C1_Witness ==
    /\ bpc = "returned"
    /\ rx = RecvErr("Checksum")
    /\ sendRes = SendErr("NotReady")
    /\ ret = BridgeInput("Checksum")

\* C2: when receive() returns Ok(s), process_one sends exactly s, once, and
\* nothing else; it returns Ok(()) if the sink succeeds and Err(Output(o))
\* with the sink's own error o if it fails.
C2_SuccessForwardsState ==
    (bpc = "returned" /\ rx.ok) =>
        /\ sent = <<rx.state>>
        /\ sendRes.ok => ret = BridgeOk
        /\ ~sendRes.ok => ret = BridgeOutput(sendRes.err)

\* A non-neutral state forwarded to a sink that is busy.
C2_Witness ==
    /\ bpc = "returned"
    /\ rx.ok
    /\ rx.state # neutral
    /\ sent = <<rx.state>>
    /\ ret = BridgeOutput("Busy")

\* C3 as stated: at the end of every cycle whose receive failed, the state
\* most recently accepted by the sink is neutral (a sink that has accepted
\* nothing yet holds no stale state either).
C3_SinkHoldsNeutralAfterFailure ==
    (bpc = "returned" /\ ~rx.ok) => held \in {neutral, NoState}

\* C3 as amended: at the end of every cycle whose receive failed, exactly one
\* send was made; if the sink accepted it the sink holds neutral, and if the
\* sink rejected it the sink still holds what it held before the cycle.
C3_SinkHoldsNeutralIfAccepted ==
    (bpc = "returned" /\ ~rx.ok) =>
        /\ Len(sent) = 1
        /\ sendRes.ok => held = neutral
        /\ ~sendRes.ok => held = heldAtStart

\* A sink holding a non-neutral state is brought to neutral by a failed
\* receive.
C3_Witness ==
    /\ bpc = "returned"
    /\ ~rx.ok
    /\ sendRes.ok
    /\ heldAtStart \in SampleStates \ {neutral}
    /\ held = neutral

-----------------------------------------------------------------------------
(* Properties of MavlinkParser (checked under SpecParser)                  *)

\* The last byte of the current frame has just been pushed.
FrameJustFed == cur.kind = "frame" /\ stream = <<>>

\* C4: whenever push_byte returns a terminal outcome (Ok(Some(_)) or Err(_)),
\* the parser is back in WaitingForStart with pos = 0 when the call returns.
C4_TerminalResets ==
    Terminal(lastRes) => (parser.state = "WaitingForStart" /\ parser.pos = 0)

\* A terminal error and a terminal message have both been returned.
C4_Witness ==
    /\ startRes = ResErr("CrcError")
    /\ lastRes.tag = "Heartbeat"
    /\ parser.state = "WaitingForStart"

\* C5: after a terminal result, every later push_byte returns what a newly
\* constructed parser returns for the same bytes, although the used parser's
\* buffer still holds the bytes of earlier frames.
C5_SameAsFresh ==
    /\ lastRes = shadowRes
    /\ parser.state = shadow.state
    /\ parser.pos = shadow.pos
    /\ parser.expected_len = shadow.expected_len

\* A message decoded by a parser whose buffer differs from the one of the
\* newly constructed parser beside it.
C5_Witness ==
    /\ lastRes.tag = "ManualControl"
    /\ Terminal(startRes)
    /\ \E i \in DOMAIN parser.buffer : parser.buffer[i] # shadow.buffer[i]

\* C6: every index at which push_byte writes the buffer and every index
\* parse_frame reads is below MAX_FRAME_SIZE, and every index into the
\* payload slice is inside the slice: no call panics.
C6_IndicesInBounds ==
    /\ ~panicked
    /\ access.ok
    /\ access.hi < MAX_FRAME_SIZE

\* The longest frame (0xFD, 255 payload bytes) has been read up to its
\* second CRC byte at index 266.
C6_Witness ==
    /\ FrameJustFed
    /\ cur.len = 255
    /\ lastRes.tag = "Heartbeat"
    /\ access.hi = 266

\* A complete recognized frame with the right CRC and, for manual-control,
\* a payload long enough
WellFormed(d) ==
    /\ Complete(d)
    /\ d.id \in {MSG_ID_HEARTBEAT, MSG_ID_MANUAL_CONTROL}
    /\ CrcMatches(d)
    /\ d.id = MSG_ID_MANUAL_CONTROL => d.len >= 11

\* A recognized frame with a wrong CRC, a too-short manual-control payload,
\* or cut short of its declared length
Malformed(d) ==
    /\ d.kind = "frame"
    /\ d.id \in {MSG_ID_HEARTBEAT, MSG_ID_MANUAL_CONTROL}
    /\ \/ d.cut > 0
       \/ ~CrcMatches(d)
       \/ d.id = MSG_ID_MANUAL_CONTROL /\ d.len < 11

\* The message a well-formed frame carries, from the sender's payload
MessageOf(d) ==
    LET pl == FramePayload(d)
    IN  IF d.id = MSG_ID_HEARTBEAT THEN ResHeartbeat
        ELSE ResManualControl(ManualControl(
                 pl[1],
                 i16_from_le_bytes(pl[2], pl[3]),
                 i16_from_le_bytes(pl[4], pl[5]),
                 i16_from_le_bytes(pl[6], pl[7]),
                 i16_from_le_bytes(pl[8], pl[9]),
                 u16_from_le_bytes(pl[10], pl[11]),
                 IF d.len >= 13 THEN u16_from_le_bytes(pl[12], pl[13]) ELSE 0))

\* C7 as stated: a well-formed recognized frame fed right after a malformed
\* frame (wrong CRC, too-short payload, or cut short) yields its message.
C7_NextFrameParsedAfterMalformed ==
    (FrameJustFed /\ WellFormed(cur) /\ Malformed(prev)) =>
        lastRes = MessageOf(cur)

\* C7 as amended: a well-formed recognized frame fed right after a malformed
\* frame on whose last byte push_byte returned a terminal result (CrcError
\* or Incomplete) yields its message.
C7_NextFrameParsedAfterTerminal ==
    (FrameJustFed /\ WellFormed(cur) /\ Malformed(prev) /\ Terminal(startRes)) =>
        lastRes = MessageOf(cur)

\* A manual-control message decoded right after a too-short one.
C7_Witness ==
    /\ FrameJustFed
    /\ WellFormed(cur)
    /\ Malformed(prev)
    /\ startRes = ResErr("Incomplete")
    /\ lastRes.tag = "ManualControl"
    /\ lastRes = MessageOf(cur)

\* The CRC of C8: accumulated from 0xFFFF over the header bytes after the
\* start byte, then the payload, then 50 (heartbeat) or 243 (manual-control)
C8_Crc(d) ==
    crc_accumulate(IF d.id = 0 THEN 50 ELSE 243,
                   CrcLoop(Tail(FrameHeader(d)) \o FramePayload(d),
                           1, Len(FrameHeader(d)) - 1 + d.len, 65535))

\* That CRC for each frame of Frames, computed once
C8_CrcOf == [d \in Frames |-> C8_Crc(d)]

\* The two trailing bytes of the frame, read little-endian
C8_Trailing(d) == FrameCrcBytes(d)[1] + 256 * FrameCrcBytes(d)[2]

\* C8: for a complete frame with message id 0 or 69, push_byte returns
\* Err(CrcError) exactly when the trailing bytes differ from that CRC, also
\* when the payload is too short; a CRC-valid heartbeat yields Heartbeat for
\* any declared payload length.
C8_CrcErrorIffMismatch ==
    (FrameJustFed /\ sync /\ Complete(cur) /\ cur.id \in {0, 69}) =>
        /\ lastRes = ResErr("CrcError") <=> C8_Trailing(cur) # C8_CrcOf[cur]
        /\ (cur.id = 0 /\ C8_Trailing(cur) = C8_CrcOf[cur]) => lastRes = ResHeartbeat

\* A too-short manual-control frame with a wrong CRC is a CrcError, and a
\* frame was accepted before it.
C8_Witness ==
    /\ FrameJustFed
    /\ sync
    /\ cur = Frame(1, 10, 69, 3, "badhi", 0)
    /\ lastRes = ResErr("CrcError")
    /\ prev.kind = "frame" /\ prev.len = 255 /\ startRes = ResHeartbeat

\* C10: a complete frame whose message id is neither 0 nor 69 yields
\* Unknown(id) whatever its trailing bytes are; for 0xFD frames the id is the
\* 3-byte little-endian value, so (69, a, b) with a or b non-zero is Unknown.
C10_UnknownWithoutCrc ==
    (FrameJustFed /\ sync /\ Complete(cur) /\ cur.id \notin {0, 69}) =>
        lastRes = ResUnknown(cur.id)

\* An 0xFD frame with id bytes (69, 1, 0) and a wrong CRC is Unknown(325).
C10_Witness ==
    /\ FrameJustFed
    /\ sync
    /\ cur.ver = 2
    /\ ~CrcMatches(cur)
    /\ lastRes = ResUnknown(325)

-----------------------------------------------------------------------------
(* Properties of the CRC (checked under SpecCrc)                           *)

\* One byte of the standard CRC-16/MCRF4XX: reflected polynomial 0x8408,
\* bits processed LSB-first
RECURSIVE StdCrcBits(_, _)
StdCrcBits(crc, n) ==
    IF n = 0 THEN crc
    ELSE StdCrcBits(IF crc % 2 = 1 THEN BitXor(crc \div 2, 33800) ELSE crc \div 2,
                    n - 1)

StdCrcUpdate(byte, crc) == StdCrcBits(BitXor(crc, byte), 8)

\* The standard checksum of a byte sequence, from the initial value 0xFFFF,
\* with no final XOR
RECURSIVE StdCrc(_, _)
StdCrc(data, n) ==
    IF n = 0 THEN 65535 ELSE StdCrcUpdate(data[n], StdCrc(data, n - 1))

\* C9: crc_accumulate is the standard one-byte update, and crc16_mcrf4xx is
\* the standard CRC-16/MCRF4XX of data followed by crc_extra.
C9_CrcIsStandard ==
    (crcOut # -1) =>
        IF crcIn.fn = "crc_accumulate"
        THEN crcOut = StdCrcUpdate(crcIn.byte, crcIn.crc)
        ELSE crcOut = StdCrc(Append(crcIn.data, crcIn.crc_extra),
                             Len(crcIn.data) + 1)

-----------------------------------------------------------------------------
(* Decoding of MANUAL_CONTROL (checked under SpecParser)                   *)

\* Byte k (counted from 0) of the payload the sender wrote
C11_Payload(d, k) == FramePayload(d)[k + 1]

\* The little-endian unsigned 16-bit value at payload offset k
C11_U16(d, k) == C11_Payload(d, k) + 256 * C11_Payload(d, k + 1)

\* The little-endian signed 16-bit value at payload offset k
C11_I16(d, k) ==
    IF C11_U16(d, k) >= 32768 THEN C11_U16(d, k) - 65536 ELSE C11_U16(d, k)

\* C11: a complete CRC-valid frame with message id 69 yields, when its
\* declared payload length is at least 11, ManualControl with target =
\* payload[0], x, y, z, r = the little-endian i16 at offsets 1, 3, 5, 7,
\* buttons = the little-endian u16 at offset 9 and buttons2 = the
\* little-endian u16 at offset 11 when the length is at least 13, else 0;
\* when the length is below 11 it yields Err(Incomplete).
C11_ManualControlDecoded ==
    (FrameJustFed /\ sync /\ Complete(cur) /\ cur.id = 69 /\ CrcMatches(cur)) =>
        IF cur.len >= 11
        THEN /\ lastRes.tag = "ManualControl"
             /\ lastRes.msg.target = C11_Payload(cur, 0)
             /\ lastRes.msg.x = C11_I16(cur, 1)
             /\ lastRes.msg.y = C11_I16(cur, 3)
             /\ lastRes.msg.z = C11_I16(cur, 5)
             /\ lastRes.msg.r = C11_I16(cur, 7)
             /\ lastRes.msg.buttons = C11_U16(cur, 9)
             /\ lastRes.msg.buttons2 =
                    (IF cur.len >= 13 THEN C11_U16(cur, 11) ELSE 0)
        ELSE lastRes = ResErr("Incomplete")

\* A 13-byte manual-control payload decoded with a non-zero buttons2, after
\* an 11-byte one decoded with a negative axis and buttons2 = 0.
C11_Witness ==
    /\ FrameJustFed
    /\ sync
    /\ cur = Frame(2, 13, 69, 120, "good", 0)
    /\ lastRes.tag = "ManualControl"
    /\ lastRes.msg.buttons2 = 131 + 256 * 132
    /\ prev = Frame(1, 11, 69, 250, "good", 0)
    /\ startRes.tag = "ManualControl"
    /\ startRes.msg.x = 251 + 256 * 252 - 65536
    /\ startRes.msg.buttons2 = 0

-----------------------------------------------------------------------------
(* Properties of the ASCII codec (checked under SpecAscii)                 *)

\* C13: a GamepadState serialized into a buffer of at least 48 bytes is
\* written, and parse of the written bytes returns that state; a
\* GamepadFieldUpdate serialized into a buffer of at least 16 bytes is
\* written, and parse_message of the written bytes returns Update of it.
C13_RoundTrip ==
    /\ (aOp = "state" /\ Len(aBuf) >= 48) => aSer.ok
    /\ (aOp = "update" /\ Len(aBuf) >= 16) => aSer.ok
    /\ (aOp = "written" /\ aVal.kind = "FullState") =>
            aRes.ok /\ aRes.v = aVal.state
    /\ (aOp = "written" /\ aVal.kind = "Update") =>
            aMsgRes.ok /\ aMsgRes.v = Update(aVal.update)

\* The state with buttons 0xFFFF, sticks at 32767 and -32768 and triggers
\* at 255 came back from its 44 written bytes.
C13_Witness ==
    /\ aOp = "written"
    /\ aVal.state = GamepadState(65535, AnalogStick(32767, -32768),
                                 AnalogStick(-32768, -32768), 255, 255)
    /\ Len(aLine) = 44
    /\ aRes.ok
    /\ aRes.v = aVal.state

\* C19: serialize returns Err(BufferTooSmall) exactly when the buffer is
\* shorter than 48 bytes (GamepadState) or 16 bytes (GamepadFieldUpdate),
\* and then leaves the buffer as it was; otherwise it returns the number n
\* of bytes written, at most 45 or 14, the first byte is 'G' or 'U' and
\* byte n-1 is a line feed.
C19_CapacityContract ==
    (aOp \in {"state", "update", "written"}) =>
        LET full == aVal.kind = "FullState"
        IN  /\ (~aSer.ok /\ aSer.err = "BufferTooSmall")
                   <=> Len(aBuf) < (IF full THEN 48 ELSE 16)
            /\ ~aSer.ok => aSer.buf = aBuf
            /\ aSer.ok =>
                   /\ aSer.n >= 1
                   /\ aSer.n <= (IF full THEN 45 ELSE 14)
                   /\ Len(aSer.buf) = Len(aBuf)
                   /\ aSer.buf[1] = (IF full THEN 71 ELSE 85)
                   /\ aSer.buf[aSer.n] = 10

\* A 23-byte full-state message was refused a 47-byte buffer.
C19_Witness ==
    /\ aOp = "state"
    /\ aVal.state = GamepadState(0, AnalogStick(0, 0), AnalogStick(0, 0), 0, 255)
    /\ Len(aBuf) = 47
    /\ aSer = SerializeErr("BufferTooSmall", aBuf)

-----------------------------------------------------------------------------
(* The wire format of a line, read from its bytes without the parser       *)

IsHexChar(c) == c \in (48..57) \cup (65..70) \cup (97..102)

HexCharValue(c) == IF c <= 57 THEN c - 48 ELSE IF c <= 70 THEN c - 55 ELSE c - 87

\* The value of the two hex digits at s[i], s[i + 1]
HexPairValue(s, i) == 16 * HexCharValue(s[i]) + HexCharValue(s[i + 1])

\* A line without its trailing LF and, before that, its trailing CR
Stripped(line) ==
    Only({ IF a # <<>> /\ a[Len(a)] = 13 THEN SubSeq(a, 1, Len(a) - 1) ELSE a
         : a \in { IF line # <<>> /\ line[Len(line)] = 10
                   THEN SubSeq(line, 1, Len(line) - 1) ELSE line } })

\* The index of the last '*' of s, 0 if it has none
LastStar(s) ==
    IF \E i \in 1..Len(s) : s[i] = 42
    THEN CHOOSE i \in 1..Len(s) : s[i] = 42 /\ \A j \in (i + 1)..Len(s) : s[j] # 42
    ELSE 0

\* s begins with 'G' or 'U' and has the minimum length of its kind
HasPrefixAndLength(s) ==
    /\ s # <<>>
    /\ s[1] \in {71, 85}
    /\ Len(s) >= (IF s[1] = 71 THEN 20 ELSE 7)

\* The last '*' of s is followed by exactly two hex digits
HasHexChecksum(s) ==
    /\ LastStar(s) >= 2
    /\ Len(s) = LastStar(s) + 2
    /\ IsHexChar(s[Len(s) - 1])
    /\ IsHexChar(s[Len(s)])

\* The bytes strictly between the prefix and the last '*'
PayloadBytes(s) == SubSeq(s, 2, LastStar(s) - 1)

\* The two hex digits are the XOR of the payload bytes
ChecksumMatches(s) ==
    \E p \in {PayloadBytes(s)} : HexPairValue(s, Len(s) - 1) = XorFold(p, Len(p))

\* The number of ':' in p
Colons(p) == Cardinality({i \in 1..Len(p) : p[i] = 58})

\* The bytes of p before its first ':', and <<58>> (no identifier) if p has
\* no ':'
FieldId(p) ==
    IF \E i \in 1..Len(p) : p[i] = 58
    THEN SubSeq(p, 1, (CHOOSE i \in 1..Len(p) :
                          p[i] = 58 /\ \A j \in 1..(i - 1) : p[j] # 58) - 1)
    ELSE <<58>>

\* "B", "LX", "LY", "RX", "RY", "LT", "RT"
FieldIds ==
    { <<66>>, <<76, 88>>, <<76, 89>>, <<82, 88>>, <<82, 89>>, <<76, 84>>, <<82, 84>> }

\* The value of a digit string, 100000 for every value above that
RECURSIVE DecimalValue(_, _)
DecimalValue(digits, n) ==
    IF n = 0 THEN 0
    ELSE Only({ IF v > 100000 THEN 100000 ELSE v
              : v \in {DecimalValue(digits, n - 1) * 10 + digits[n]} })

\* A part that is a decimal number: optional spaces and sign, then digits
IsDecimal(p) == p.raw = <<>> /\ p.digits # <<>>

SignedValue(p) ==
    IF p.sign = "-" THEN 0 - DecimalValue(p.digits, Len(p.digits))
    ELSE DecimalValue(p.digits, Len(p.digits))

\* The result of both entry points
BothErr(e) ==
    /\ ~aRes.ok /\ aRes.err = e
    /\ ~aMsgRes.ok /\ aMsgRes.err = e

\* The result of the entry points that accept the kind of line s is
KindErr(s, e) ==
    /\ ~aMsgRes.ok /\ aMsgRes.err = e
    /\ s[1] = 71 => (~aRes.ok /\ aRes.err = e)

\* The six decimal fields of a state, numbered as the parts of the payload
FieldAt(s, k) ==
    CASE k = 2 -> s.left_stick.x
      [] k = 3 -> s.left_stick.y
      [] k = 4 -> s.right_stick.x
      [] k = 5 -> s.right_stick.y
      [] k = 6 -> s.left_trigger
      [] k = 7 -> s.right_trigger

\* The update variant an identifier names
VariantOf(id) ==
    CASE id = <<76, 88>> -> "LeftStickX"
      [] id = <<76, 89>> -> "LeftStickY"
      [] id = <<82, 88>> -> "RightStickX"
      [] id = <<82, 89>> -> "RightStickY"
      [] id = <<76, 84>> -> "LeftTrigger"
      [] id = <<82, 84>> -> "RightTrigger"

-----------------------------------------------------------------------------
(* Properties of the ASCII parser (checked under SpecAscii)                *)

\* The index of the first checksum character of the line that was altered
C14_Pos == 3 + Len(Payload(aMsg))

\* The altered line is accepted with the result of the original line
C14_StillAccepted ==
    /\ aMsgRes.ok
    /\ aMsgRes = gamepad_parse_message(aOrig)
    /\ aRes = parse(aOrig)
    /\ aOrig[1] = 71 => aRes.ok

\* C14 as stated: an accepted line with one payload byte changed, or with
\* only its two checksum characters changed, is rejected with the Checksum
\* error.
C14_AlteredIsChecksumError ==
    aOp = "altered" => KindErr(aOrig, "Checksum")

\* C14, amended: an accepted line with one payload byte changed is rejected
\* with the Checksum error. With only its two checksum characters changed
\* it is rejected with the Checksum error when they are two hex digits of
\* another value, rejected with the Parse error when they are not two hex
\* digits, and accepted with the same result when they are the same value
\* in the other letter case.
C14_ChecksumSensitivity ==
    aOp = "altered" =>
        /\ aAlt = "payload" => KindErr(aOrig, "Checksum")
        /\ aAlt = "checksum" =>
               \A i \in {C14_Pos} :
                   IF IsHexChar(aLine[i]) /\ IsHexChar(aLine[i + 1])
                   THEN IF HexPairValue(aLine, i) # HexPairValue(aOrig, i)
                        THEN KindErr(aOrig, "Checksum")
                        ELSE C14_StillAccepted
                   ELSE KindErr(aOrig, "Parse")

\* "GABCD:0:0:0:0:0:0*hh" came back with its first '0' changed to '*'.
C14_Witness ==
    /\ aOp = "altered"
    /\ aAlt = "payload"
    /\ aMsg = Msg(<<71>>, BaseParts, "good", <<10>>)
    /\ aLine = [aOrig EXCEPT ![7] = 42]
    /\ aOrig[7] = 48
    /\ BothErr("Checksum")

\* A line with a field that is no decimal number
C15_MalformedField ==
    \/ /\ aMsg.prefix = <<71>>
       /\ Len(aMsg.parts) = 7
       /\ aMsg.parts[1] = BaseParts[1]
       /\ \E k \in 2..7 : aMsg.parts[k].raw # <<>>
    \/ /\ aMsg.prefix = <<85>>
       /\ Len(aMsg.parts) = 2
       /\ aMsg.parts[1] \in NumIds
       /\ aMsg.parts[2].raw # <<>>

\* C15: for a line with a G or U prefix, at least the minimum length and a
\* last '*' followed by exactly two hex digits, the result is the Checksum
\* error if and only if the digits differ from the XOR of the bytes between
\* the prefix and that '*'; a line with a malformed field gets the Checksum
\* error with a wrong checksum and the Parse error with the matching one.
C15_ChecksumBeforeFields ==
    (aOp \in {"parse", "altered", "written"}) =>
        \A s \in {Stripped(aLine)} :
            /\ (HasPrefixAndLength(s) /\ HasHexChecksum(s)) =>
                   /\ (~aMsgRes.ok /\ aMsgRes.err = "Checksum") <=> ~ChecksumMatches(s)
                   /\ s[1] = 71 =>
                          ((~aRes.ok /\ aRes.err = "Checksum") <=> ~ChecksumMatches(s))
            /\ (aOp = "parse" /\ C15_MalformedField /\ aMsg.ck = "bad") =>
                   KindErr(s, "Checksum")
            /\ (aOp = "parse" /\ C15_MalformedField /\ aMsg.ck = "good") =>
                   KindErr(s, "Parse")

\* "GABCD:1a:0:0:0:0:0" with a wrong checksum got the Checksum error.
C15_Witness ==
    /\ aOp = "parse"
    /\ aMsg = Msg(<<71>>, [BaseParts EXCEPT ![2] = Part(0, "", <<1>>, <<97>>)],
                  "bad", <<10>>)
    /\ BothErr("Checksum")

\* The text of a trigger field whose value the digits alone decide: no
\* sign, or a '-' before a value other than 0
C16_TriggerText(p) == p.sign = "" \/ (p.sign = "-" /\ SignedValue(p) # 0)

\* The line endings strip_line_ending removes whole: none, LF, CR, CR LF
C16_LineEndings == { <<>>, <<10>>, <<13>>, <<13, 10>> }

C16_InRange(k, p) ==
    IF k <= 5 THEN SignedValue(p) \in -32768..32767
    ELSE SignedValue(p) \in 0..255

\* C16: with a correct checksum, a line whose stick fields are decimal
\* numbers and whose trigger fields are unsigned decimal numbers is accepted
\* exactly when every stick value is in -32768..32767 and every trigger
\* value in 0..255, the accepted fields have these values, and every other
\* such line gets the Parse error, however long its digit strings are.
C16_NumericRange ==
    (aOp = "parse" /\ aMsg.ck = "good" /\ aMsg.ending \in C16_LineEndings) =>
        /\ ( /\ aMsg.prefix = <<71>>
             /\ Len(aMsg.parts) = 7
             /\ aMsg.parts[1] = BaseParts[1]
             /\ \A k \in 2..7 : IsDecimal(aMsg.parts[k])
             /\ \A k \in 6..7 : C16_TriggerText(aMsg.parts[k]) ) =>
               IF \A k \in 2..7 : C16_InRange(k, aMsg.parts[k])
               THEN /\ aRes.ok
                    /\ aRes.v.buttons = 43981
                    /\ \A k \in 2..7 : FieldAt(aRes.v, k) = SignedValue(aMsg.parts[k])
                    /\ aMsgRes = Ok(FullState(aRes.v))
               ELSE BothErr("Parse")
        /\ ( /\ aMsg.prefix = <<85>>
             /\ Len(aMsg.parts) = 2
             /\ aMsg.parts[1] \in NumIds
             /\ IsDecimal(aMsg.parts[2])
             /\ aMsg.parts[1].raw \in {<<76, 84>>, <<82, 84>>} =>
                    C16_TriggerText(aMsg.parts[2]) ) =>
               IF C16_InRange(IF aMsg.parts[1].raw \in {<<76, 84>>, <<82, 84>>}
                              THEN 6 ELSE 2, aMsg.parts[2])
               THEN aMsgRes = Ok(Update(GamepadFieldUpdate(
                                   VariantOf(aMsg.parts[1].raw),
                                   SignedValue(aMsg.parts[2]))))
               ELSE ~aMsgRes.ok /\ aMsgRes.err = "Parse"

\* "ULX:-32768" with its checksum was accepted as LeftStickX(-32768).
C16_Witness ==
    /\ aOp = "parse"
    /\ aMsg = Msg(<<85>>, <<Raw(<<76, 88>>), Part(0, "-", <<3, 2, 7, 6, 8>>, <<>>)>>,
                  "good", <<10>>)
    /\ aMsgRes = Ok(Update(GamepadFieldUpdate("LeftStickX", -32768)))

\* C17: after stripping the line ending, an empty line or one whose first
\* byte is neither 'G' nor 'U', a full-state line shorter than 20 bytes, an
\* update line shorter than 7 bytes, a line with no '*', and, with a correct
\* checksum, a full-state payload that has not exactly 7 parts or an update
\* whose identifier is not one of B, LX, LY, RX, RY, LT, RT, get the Parse
\* error.
C17_FramingRejected ==
    (aOp \in {"parse", "altered", "written"}) =>
        \A s \in {Stripped(aLine)} :
            /\ (s = <<>> \/ s[1] \notin {71, 85}) => BothErr("Parse")
            /\ (s # <<>> /\ s[1] = 71 /\ Len(s) < 20) => BothErr("Parse")
            /\ (s # <<>> /\ s[1] = 85 /\ Len(s) < 7) => BothErr("Parse")
            /\ LastStar(s) = 0 => BothErr("Parse")
            /\ ( /\ s # <<>>
                 /\ s[1] = 71
                 /\ HasHexChecksum(s)
                 /\ ChecksumMatches(s)
                 /\ Colons(PayloadBytes(s)) # 6 ) => BothErr("Parse")
            /\ ( /\ s # <<>>
                 /\ s[1] = 85
                 /\ HasHexChecksum(s)
                 /\ ChecksumMatches(s)
                 /\ FieldId(PayloadBytes(s)) \notin FieldIds ) => BothErr("Parse")

\* "GABCD:0:0:0:0:0:0:0" with its checksum got the Parse error.
C17_Witness ==
    /\ aOp = "parse"
    /\ aMsg = Msg(<<71>>, Append(BaseParts, Num(0)), "good", <<10>>)
    /\ BothErr("Parse")

\* The line is "GABCD:0:0:0:0:0:0" with the decimal number p as part k and
\* a correct checksum
C18_Line(k, p) ==
    /\ aOp = "parse"
    /\ aMsg = Msg(<<71>>, [BaseParts EXCEPT ![k] = p], "good", <<10>>)
    /\ IsDecimal(p)

\* C18 as stated: each of the six decimal fields may carry leading spaces
\* and a leading '+', and then has the value it has without them.
C18_PlusOnEveryField ==
    \A k \in 2..7 :
        (Len(aMsg.parts) = 7 /\ C18_Line(k, aMsg.parts[k])) =>
            \A p \in {aMsg.parts[k]} :
                (p.sign \in {"", "+"} /\ C16_InRange(k, p)) =>
                    aRes.ok /\ FieldAt(aRes.v, k) = SignedValue(p)

\* C18, amended: each of the six decimal fields may carry leading spaces;
\* a stick field may also carry a leading sign, and with a '+' it has the
\* value it has without it; a trigger field with a leading '+' or '-' gets
\* the Parse error.
C18_SignOnSticksOnly ==
    \A k \in 2..7 :
        (Len(aMsg.parts) = 7 /\ C18_Line(k, aMsg.parts[k])) =>
            \A p \in {aMsg.parts[k]} :
                /\ (k <= 5 /\ C16_InRange(k, p)) =>
                       aRes.ok /\ FieldAt(aRes.v, k) = SignedValue(p)
                /\ (k >= 6 /\ p.sign = "" /\ C16_InRange(k, p)) =>
                       aRes.ok /\ FieldAt(aRes.v, k) = SignedValue(p)
                /\ (k >= 6 /\ p.sign # "") => BothErr("Parse")

\* "GABCD:  +7:0:0:0:0:0" with its checksum was accepted with lx = 7.
C18_Witness ==
    /\ aOp = "parse"
    /\ aMsg = Msg(<<71>>, [BaseParts EXCEPT ![2] = Part(MaxSpaces, "+", <<7>>, <<>>)],
                  "good", <<10>>)
    /\ aRes.ok
    /\ aRes.v.left_stick.x = 7

-----------------------------------------------------------------------------
(* Properties of apply_update (checked under SpecUpdate)                   *)

\* The seven fields of a GamepadState, named as the update variants are
FieldOf(s, f) ==
    CASE f = "Buttons" -> s.buttons
      [] f = "LeftStickX" -> s.left_stick.x
      [] f = "LeftStickY" -> s.left_stick.y
      [] f = "RightStickX" -> s.right_stick.x
      [] f = "RightStickY" -> s.right_stick.y
      [] f = "LeftTrigger" -> s.left_trigger
      [] f = "RightTrigger" -> s.right_trigger

UpdateFields ==
    {"Buttons", "LeftStickX", "LeftStickY", "RightStickX", "RightStickY",
     "LeftTrigger", "RightTrigger"}

\* C20: applying an update twice gives the state that applying it once
\* gives, and applying it leaves every field other than the one it names at
\* its prior value.
C20_IdempotentAndFramed ==
    /\ uStep = 2 => uTwice = uOnce
    /\ uStep >= 1 =>
           \A f \in UpdateFields \ {uUpdate.field} :
               FieldOf(uOnce, f) = FieldOf(uState, f)

\* LeftStickY(-32768) applied twice to a state whose fields all differ.
C20_Witness ==
    /\ uStep = 2
    /\ uState = GamepadState(1, AnalogStick(2, 3), AnalogStick(4, 5), 6, 7)
    /\ uUpdate = GamepadFieldUpdate("LeftStickY", -32768)
    /\ uOnce = GamepadState(1, AnalogStick(2, -32768), AnalogStick(4, 5), 6, 7)
    /\ uTwice = uOnce

-----------------------------------------------------------------------------
(* Properties of the mappers (checked under SpecMap)                       *)

MapCalled(fn) == mDone /\ mIn.fn = fn

\* C21: mavlink_to_stick is total: for every i16 val and both values of
\* invert the result lies in -32768..32767 and no operation overflows;
\* 0, 1000 and -1000 give 0, 32767 and -32767, values outside -1000..1000
\* are clamped, and invert = true gives exactly the negation of the result
\* for invert = false.
C21_StickTotal ==
    MapCalled("mavlink_to_stick") =>
        /\ ~mOut.overflow
        /\ ~mOut.panic
        /\ mOut.v \in -32768..32767
        /\ (~mIn.invert /\ mIn.val = 0) => mOut.v = 0
        /\ (~mIn.invert /\ mIn.val = 1000) => mOut.v = 32767
        /\ (~mIn.invert /\ mIn.val = -1000) => mOut.v = -32767
        /\ (~mIn.invert /\ mIn.val > 1000) => mOut.v = 32767
        /\ (~mIn.invert /\ mIn.val < -1000) => mOut.v = -32768
        /\ mIn.invert => mOut.v = 0 - mavlink_to_stick(mIn.val, FALSE, mChecks).v

\* C22: manual_control_to_gamepad is total: for every input and every
\* AxisMapping none of its own computations (-x, 1000 - z) overflows and a
\* GamepadState is returned.
C22_ManualControlTotal ==
    MapCalled("manual_control_to_gamepad") => (~mOut.own /\ ~mOut.panic)

\* C23: the RC-channel mappers are total over u16: crsf_to_stick lies in
\* -32767..32767, 992 gives 0, 0 gives -32767, 1984 and every larger value
\* give 32767, and invert gives the exact negation without overflow;
\* crsf_to_trigger lies in 0..255, 0 gives 0, 992 gives 127 and every value
\* from 1984 on gives 255.
C23_CrsfTotal ==
    /\ MapCalled("crsf_to_stick") =>
        /\ ~mOut.overflow
        /\ ~mOut.panic
        /\ mOut.v \in -32767..32767
        /\ (~mIn.invert /\ mIn.val = 992) => mOut.v = 0
        /\ (~mIn.invert /\ mIn.val = 0) => mOut.v = -32767
        /\ (~mIn.invert /\ mIn.val >= 1984) => mOut.v = 32767
        /\ mIn.invert => mOut.v = 0 - crsf_to_stick(mIn.val, FALSE, mChecks).v
    /\ MapCalled("crsf_to_trigger") =>
        /\ mOut.v \in 0..255
        /\ mIn.val = 0 => mOut.v = 0
        /\ mIn.val = 992 => mOut.v = 127
        /\ mIn.val >= 1984 => mOut.v = 255

\* The largest u16 through the inverted stick mapper of a build with
\* overflow checks
C23_Witness ==
    /\ MapCalled("crsf_to_stick")
    /\ mIn.val = 65535
    /\ mIn.invert
    /\ mChecks
    /\ mOut.v = -32767

C25_ThrustRouting ==
    (MapCalled("manual_control_to_gamepad") /\ ~mOut.panic) =>
        LET z1 == IF mIn.mapping.invert_z THEN 1000 - mIn.axes.z ELSE mIn.axes.z
        IN  /\ mOut.v.right_trigger = 0
            /\ mIn.mapping.z_as_trigger =>
                /\ mOut.v.left_trigger = (clamp(z1, 0, 1000) * 255) \div 1000
                /\ mOut.v.left_stick.y = 0
            /\ ~mIn.mapping.z_as_trigger =>
                /\ mOut.v.left_stick.y =
                      mavlink_to_stick(mIn.axes.z, mIn.mapping.invert_z, mChecks).v
                /\ mOut.v.left_trigger = 0

-----------------------------------------------------------------------------
(* Properties of the bridge loop (checked under SpecBridge and, for        *)
(* progress, under SpecBridgeLive)                                         *)

\* C26: the bridge never overlaps its operations: at most one receive and at
\* most one send is outstanding, never both; while a send is outstanding the
\* cycle's receive has completed, and while a receive is outstanding the
\* previous cycle's send has completed.
C26_NoOverlap ==
    /\ recvOut \in 0..1
    /\ sendOut \in 0..1
    /\ recvOut + sendOut <= 1
    /\ bpc = "receiving" => (recvOut = 1 /\ sendOut = 0)
    /\ bpc = "sending" => (recvOut = 0 /\ sendOut = 1)
    /\ bpc \in {"idle", "returned"} => (recvOut = 0 /\ sendOut = 0)

\* A send is outstanding in a cycle after the first
C26_Witness ==
    /\ bpc = "sending"
    /\ lastRet # NoResult
    /\ sendOut = 1
    /\ recvOut = 0

\* What process_one can return
ProcessOneOutcomes ==
    {BridgeOk} \cup {BridgeInput(e) : e \in InputError}
               \cup {BridgeOutput(o) : o \in OutputError}

\* C27: run never returns and never stops on a bad frame: after every
\* outcome of process_one (Ok, input error, output error) a further receive
\* is issued, so when every receive and send completes, cycles are executed
\* again and again.
C27_RunsForever ==
    /\ []<>(bpc = "receiving")
    /\ []<>(bpc = "returned")
    /\ \A o \in ProcessOneOutcomes :
          (bpc = "returned" /\ ret = o) ~> (bpc = "receiving" /\ lastRet = o)

\* A receive is outstanding after process_one returned an input error, and
\* another after it returned an output error
C27_Witness ==
    /\ bpc = "receiving"
    /\ lastRet \in {BridgeInput(e) : e \in InputError}
               \cup {BridgeOutput(o) : o \in OutputError}
    /\ recvOut = 1

-----------------------------------------------------------------------------
(* Properties of UartInputSource (checked under SpecUart)                  *)

\* The last receive read a whole line: bytes ended by a newline, without a
\* UartError
WholeLineRead ==
    /\ usN > 0
    /\ usLine # <<>>
    /\ usLine[Len(usLine)] = 10
    /\ \A i \in 1..Len(usLine) : usLine[i] >= 0

\* C28: on any input failure the state is forced to neutral: after receive
\* returns an error the source retains neutral, so the state returned for a
\* following single-field Update is neutral with only that field changed.
C28_NeutralAfterError ==
    /\ (usN > 0 /\ ~usRet.ok) => usState = neutral
    /\ (usN > 1 /\ ~usPrevRet.ok /\ usRet.ok /\ usBuffer[1] = Ord["U"]) =>
          usRet.state = apply_update(neutral, gamepad_parse_message(usBuffer).v.update)

\* C30: receive returns BufferOverflow for every line longer than
\* MAX_LINE_LENGTH bytes counted with its newline, and for no line within
\* that length.
C30_OverflowIffTooLong ==
    WholeLineRead =>
        ((~usRet.ok /\ usRet.err = "BufferOverflow")
            <=> Len(usLine) > MAX_LINE_LENGTH)

-----------------------------------------------------------------------------
(* Properties of MavlinkInputSource (checked under SpecMavIn)              *)

\* C29: last_message is the time of the last good decode: it is set only
\* when push_byte yields a message whose integrity was verified (a heartbeat
\* or manual-control frame with matching CRC), and is_connected() holds
\* exactly when last_message is set and less than CONNECTION_TIMEOUT ago.
C29_LastGoodDecode ==
    /\ miLast # NoInstant =>
          /\ miSetBy.res.tag \in {"Heartbeat", "ManualControl"}
          /\ miSetBy.frame.crc = "good"
    /\ is_connected(miLast, miNow)
          <=> (miLast # NoInstant /\ miNow - miLast < CONNECTION_TIMEOUT)

-----------------------------------------------------------------------------
(* Frame termination in MavlinkParser (checked under SpecParser)           *)

\* The bytes of the current frame pushed so far
Pushed == Len(FrameBytesOf[cur]) - Len(stream)

\* The byte of a frame on which push_byte returns a terminal result
LastByteOf(d) == (IF d.ver = 1 THEN 6 ELSE 10) + d.len + 2

\* After a start byte accepted in WaitingForStart, push_byte has returned
\* Ok(None) for every byte before the last of the frame, and a terminal
\* result on the last
TerminatesAtLastByte ==
    (sync /\ cur.kind = "frame" /\ Pushed >= 1) =>
        /\ LastByteOf(cur) <= 267
        /\ Pushed < LastByteOf(cur) => (lastRes = ResNone /\ parser.pos = Pushed)
        /\ Pushed = LastByteOf(cur) => Terminal(lastRes)

\* A push_byte on a byte other than 0xFE and 0xFD in WaitingForStart
IgnoredStep ==
    (/\ stream # <<>>
     /\ stream' = Tail(stream)
     /\ parser.state = "WaitingForStart"
     /\ Head(stream) \notin {254, 253})
        => (parser' = parser /\ lastRes' = ResNone)

\* C35: in WaitingForStart a byte other than 0xFE and 0xFD is ignored
\* (Ok(None), parser unchanged); after an accepted start byte push_byte
\* returns Ok(None) for every byte up to byte H + len + 2 of the frame
\* (H = 6 for 0xFE, 10 for 0xFD, len the second byte), on which it returns
\* a terminal result, so a started frame terminates within 267 bytes.
C35_FrameTermination == [][IgnoredStep /\ TerminatesAtLastByte']_vars

\* The longest frame there is has returned its terminal result on byte 267
C35_Witness ==
    /\ sync
    /\ cur = Frame(2, 255, 0, 0, "good", 0)
    /\ Pushed = 267
    /\ Terminal(lastRes)

-----------------------------------------------------------------------------
(* What MavlinkInputSource::receive returns (checked under SpecMavIn)      *)

\* The last push_byte yielded a manual-control message that passes the
\* target filter
AcceptedManualControl ==
    /\ miRes.tag = "ManualControl"
    /\ (miTarget = 0 \/ miRes.msg.target = miTarget)

\* A step of receive() that read a byte and pushed it
ReadByteStep == miRet = RecvPending /\ miStream # <<>> /\ miStream' = Tail(miStream)

\* C40: receive never reports a frame-level error: after a parser error, a
\* heartbeat, an unknown message or a manual-control message the target
\* filter rejects, reading continues; receive returns Ok only for an
\* accepted manual-control message (filter 0 accepts any target, otherwise
\* the target equals the filter), and Err only with Io, on a failed read.
C40_OnlyIoErrors ==
    [][/\ ReadByteStep =>
            IF AcceptedManualControl'
            THEN miRet'.ok /\ miRet'.state = miState'
            ELSE miRet' = RecvPending
       /\ (miRet' # miRet /\ ~miRet'.ok /\ miRet' # RecvPending) =>
            (miRet' = RecvErr("Io") /\ miStream = <<>> /\ miStream' = <<>>)
       /\ (miRet' # miRet /\ miRet'.ok) => (ReadByteStep /\ AcceptedManualControl')
      ]_vars

\* Two frames with a wrong CRC have been read to the end, the parser
\* reported CrcError, and receive() has not returned
C40_Witness ==
    /\ miFrame.crc = "badlo"
    /\ miRes = ResErr("CrcError")
    /\ miRet = RecvPending
    /\ miN = 2
    /\ miStream = <<>>


\* ---------------------------------------------------------------------
\* State accumulation of UartInputSource (checked under SpecUart)
\* ---------------------------------------------------------------------

\* The state s with exactly the field of the update u replaced
FieldReplaced(s, u) ==
    [buttons |-> IF u.field = "Buttons" THEN u.value ELSE s.buttons,
     left_stick |->
        [x |-> IF u.field = "LeftStickX" THEN u.value ELSE s.left_stick.x,
         y |-> IF u.field = "LeftStickY" THEN u.value ELSE s.left_stick.y],
     right_stick |->
        [x |-> IF u.field = "RightStickX" THEN u.value ELSE s.right_stick.x,
         y |-> IF u.field = "RightStickY" THEN u.value ELSE s.right_stick.y],
     left_trigger |-> IF u.field = "LeftTrigger" THEN u.value ELSE s.left_trigger,
     right_trigger |-> IF u.field = "RightTrigger" THEN u.value ELSE s.right_trigger]

\* The state the first k of msgs build, starting from neutral
RECURSIVE Replayed(_, _)
Replayed(msgs, k) ==
    IF k = 0 THEN neutral
    ELSE IF msgs[k].kind = "FullState" THEN msgs[k].state
    ELSE FieldReplaced(Replayed(msgs, k - 1), msgs[k].update)

\* C36: the state receive returns is the state built from neutral by the
\* successfully parsed messages in order, a full state replacing the whole
\* state and an update replacing one field of the retained state, and it is
\* the state the source retains for the next call.
C36_StateIsReplay ==
    (usN > 0 /\ usRet.ok) =>
        /\ usRet.state = Replayed(usMsgs, Len(usMsgs))
        /\ usState = usRet.state

\* A full state, then a failed receive, then an update of one field of it
C36_Witness ==
    /\ usN = 3 /\ usRet.ok /\ ~usPrevRet.ok
    /\ Len(usMsgs) = 2
    /\ usMsgs[1].kind = "FullState" /\ usMsgs[1].state # neutral
    /\ usMsgs[2].kind = "Update"
    /\ usRet.state # usMsgs[1].state

\* ---------------------------------------------------------------------
\* Resynchronisation after an over-long line (checked under SpecUart)
\* ---------------------------------------------------------------------

\* What the UART held when the last receive was called
Arrived == usLine \o usStream

\* More than MAX_LINE_LENGTH bytes arrived before the newline at i
OverlongUpTo(i) ==
    /\ i \in 1..Len(Arrived)
    /\ i > MAX_LINE_LENGTH + 1
    /\ Arrived[i] = 10
    /\ \A j \in 1..(i - 1) : Arrived[j] >= 0 /\ Arrived[j] # 10

\* Where in usWire the last receive started reading
StartedAt == Len(usWire) - Len(usStream) - Len(usLine)

\* C37: when more bytes arrive before a newline than the buffer holds,
\* receive discards up to and including that newline and returns
\* BufferOverflow, and the following receive starts at the first byte after
\* the newline: a valid line sent right after the over-long one is parsed.
C37_OverflowResync ==
    /\ \A i \in 1..Len(Arrived) :
          (usN > 0 /\ OverlongUpTo(i)) =>
              /\ usRet = RecvErr("BufferOverflow")
              /\ usLine = SubSeq(Arrived, 1, i)
    /\ (/\ usN > 1 /\ usPrevRet = RecvErr("BufferOverflow")
        /\ StartedAt > MAX_LINE_LENGTH + 1
        /\ usWire[StartedAt] = 10
        /\ SubSeq(usWire, StartedAt + 1, Len(usWire)) \in ValidLines)
          => (usRet.ok /\ usStream = <<>>)

\* An over-long line was discarded and the update sent after it was applied
C37_Witness ==
    /\ usN = 2 /\ usPrevRet = RecvErr("BufferOverflow")
    /\ StartedAt = MAX_LINE_LENGTH + 3
    /\ usWire[StartedAt] = 10
    /\ usRet.ok /\ usRet.state.right_trigger = 5
    /\ usStream = <<>>

\* ---------------------------------------------------------------------
\* Properties of encode_telemetry and channels_to_gamepad (checked under
\* SpecCrsfProto)
\* ---------------------------------------------------------------------

CpCalled(fn) == cpDone /\ cpIn.fn = fn

\* C31: for a Gps report the encoder is handed ground speed =
\* speed_mps * 360 and altitude = alt_m + 1000 exactly, for every u8
\* speed_mps and every i16 alt_m, without overflow, wrap-around or
\* saturation.
C31_GpsExact ==
    (CpCalled("encode_telemetry") /\ cpIn.data.kind = "Gps") =>
        /\ ~cpOut.panic
        /\ cpOut.v.kind = "Gps"
        /\ cpOut.v.groundspeed = cpIn.data.speed_mps * 360
        /\ cpOut.v.altitude = cpIn.data.alt_m + 1000

\* C32: for an Attitude report the encoder is handed, for each of roll,
\* pitch and yaw v, the quotient v * 1745 / 1000 truncated towards zero,
\* for every i16 v, without wrap-around.
C32_AttitudeExact ==
    (CpCalled("encode_telemetry") /\ cpIn.data.kind = "Attitude") =>
        LET Scaled(v) == IF v >= 0 THEN (v * 1745) \div 1000
                         ELSE 0 - (((0 - v) * 1745) \div 1000)
        IN  /\ ~cpOut.panic
            /\ cpOut.v.kind = "Attitude"
            /\ cpOut.v.roll = Scaled(cpIn.data.roll)
            /\ cpOut.v.pitch = Scaled(cpIn.data.pitch)
            /\ cpOut.v.yaw = Scaled(cpIn.data.yaw)

\* Bit k of the u16 b
BitSet(b, k) == (b \div Pow2(k)) % 2 = 1

\* Every axis of the mapping names a channel of the array
AxesInRange(mapping) ==
    /\ mapping.left_stick_x < 16 /\ mapping.left_stick_y < 16
    /\ mapping.right_stick_x < 16 /\ mapping.right_stick_y < 16
    /\ mapping.left_trigger < 16 /\ mapping.right_trigger < 16

\* C38: channels_to_gamepad sets button flag i of (A, B, X, Y, LB, RB,
\* BACK, START) if and only if button_channels[i] is below 16 and the
\* channel at that index is strictly greater than 992; an index of 16 or
\* more is ignored without failure, and no other button bit is set.
C38_ButtonsByThreshold ==
    (CpCalled("channels_to_gamepad") /\ AxesInRange(cpIn.mapping)) =>
        /\ ~cpOut.panic
        /\ \A k \in 0..15 :
              BitSet(cpOut.v.buttons, k) <=>
                  /\ k < 8
                  /\ cpIn.mapping.button_channels[k + 1] < 16
                  /\ cpIn.channels[cpIn.mapping.button_channels[k + 1] + 1] > 992

\* Indices 16 and above among the button channels, X and Y on a channel at
\* 993, LB on one at 992 and RB on one at 991: X and Y alone are pressed
C38_Witness ==
    /\ CpCalled("channels_to_gamepad")
    /\ cpIn.mapping.button_channels = <<16, 17, 5, 5, 1, 0, 100, 65535>>
    /\ cpIn.channels[6] = 993 /\ cpIn.channels[2] = 992 /\ cpIn.channels[1] = 991
    /\ ~cpOut.panic
    /\ cpOut.v.buttons = 12

\* ---------------------------------------------------------------------
\* Connection status of CrsfInputSource (checked under SpecCrsfIn)
\* ---------------------------------------------------------------------

\* C39: is_connected() is true only while valid packets have been received
\* recently: false until the first RC-channels packet is decoded, and false
\* again once RC packets stop arriving or a read fails.
C39_ConnectedWhileReceiving ==
    /\ ~ciEver => ~CrsfInputSource_is_connected(ciConnected)
    /\ ciRet = RecvErr("Io") => ~CrsfInputSource_is_connected(ciConnected)
    /\ ciQuiet >= MaxQuiet => ~CrsfInputSource_is_connected(ciConnected)

\* ---------------------------------------------------------------------
\* The hand-off between input_task and output_task (checked under
\* SpecSignal and SpecSignalLive)
\* ---------------------------------------------------------------------

\* The positions, among the signals, of the states passed to send
SentIdx == { sgSent[k].idx : k \in 1..Len(sgSent) }

\* C33: the states output_task passes to send are an order-preserving
\* subsequence of the states input_task signalled; a signalled state is
\* skipped only if a later signal overwrote it before output_task took it,
\* none is sent twice for one signal, and none is sent that was never
\* signalled.
C33_LatestValueWins ==
    /\ \A k \in 1..Len(sgSent) :
          /\ sgSent[k].idx \in 1..Len(sgSignalled)
          /\ sgSent[k].state = sgSignalled[sgSent[k].idx]
    /\ \A k \in 1..Len(sgSent) : \A l \in 1..Len(sgSent) :
          k < l => sgSent[k].idx < sgSent[l].idx
    /\ \A j \in 1..Len(sgSignalled) :
          j \notin SentIdx =>
              \/ j \in sgLost /\ j < Len(sgSignalled)
              \/ sgSlot = Signalled(j, sgSignalled[j])
    /\ sgLost \cap SentIdx = {}

\* The second of three signals was overwritten; the first and the third
\* were sent
C33_Witness ==
    /\ Len(sgSignalled) = 3
    /\ sgLost = {2}
    /\ Len(sgSent) = 2 /\ sgSent[1].idx = 1 /\ sgSent[2].idx = 3
    /\ sgSignalled[2] # sgSignalled[3]

\* The last state signalled has been passed to send
LatestSent ==
    /\ sgSent # <<>>
    /\ sgSent[Len(sgSent)] =
          Signalled(Len(sgSignalled), sgSignalled[Len(sgSignalled)])

=========================================================================
